---- MODULE Spec2Model ----
(***************************************************************************)
(* ATS scoring engine of the resume builder backend:                       *)
(*   backend/services/ats_score.py   ATSScorer                             *)
(*   backend/models/resume.py        Resume.to_dict and the entry models   *)
(*   backend/routes/ai_tools.py      check_ats                             *)
(*                                                                         *)
(* Python values are tagged records: [t |-> "none"], [t |-> "str", v |->   *)
(* sequence of one-character strings], [t |-> "int", v |-> n],             *)
(* [t |-> "bool", v |-> b], [t |-> "list", v |-> sequence of values],      *)
(* [t |-> "dict", v |-> function from key to value].                       *)
(***************************************************************************)
EXTENDS Integers, Sequences, FiniteSets, TLC

(***************************************************************************)
(* Bounds of the explored inputs.                                          *)
(***************************************************************************)
MaxExp == 2
MaxEdu == 1
MaxSkills == 1

(***************************************************************************)
(* Characters of the string literals that occur in the model.              *)
(***************************************************************************)
Chars ==
  ("" :> <<>>)
  @@ (", " :> <<","," ">>)
  @@ ("0f1e2d3c4b5a" :> <<"0","f","1","e","2","d","3","c","4","b","5","a">>)
  @@ ("2020" :> <<"2","0","2","0">>)
  @@ ("2024-01-01T00:00:00" :> <<"2","0","2","4","-","0","1","-","0","1","T","0","0",":","0","0",":","0","0">>)
  @@ ("555-1234" :> <<"5","5","5","-","1","2","3","4">>)
  @@ (": " :> <<":"," ">>)
  @@ ("Acme" :> <<"A","c","m","e">>)
  @@ ("BSc" :> <<"B","S","c">>)
  @@ ("Education" :> <<"E","d","u","c","a","t","i","o","n">>)
  @@ ("Engineer" :> <<"E","n","g","i","n","e","e","r">>)
  @@ ("Experience" :> <<"E","x","p","e","r","i","e","n","c","e">>)
  @@ ("Experienced python developer" :> <<"E","x","p","e","r","i","e","n","c","e","d"," ","p","y","t","h","o","n"," ","d","e","v","e","l","o","p","e","r">>)
  @@ ("False" :> <<"F","a","l","s","e">>)
  @@ ("Increased sales 50% with Java" :> <<"I","n","c","r","e","a","s","e","d"," ","s","a","l","e","s"," ","5","0","%"," ","w","i","t","h"," ","J","a","v","a">>)
  @@ ("Jane Doe" :> <<"J","a","n","e"," ","D","o","e">>)
  @@ ("Java, HTML, CSS, React, AWS and Docker" :> <<"J","a","v","a",","," ","H","T","M","L",","," ","C","S","S",","," ","R","e","a","c","t",","," ","A","W","S"," ","a","n","d"," ","D","o","c","k","e","r">>)
  @@ ("Led SQL migrations." :> <<"L","e","d"," ","S","Q","L"," ","m","i","g","r","a","t","i","o","n","s",".">>)
  @@ ("Led machine learning projects." :> <<"L","e","d"," ","m","a","c","h","i","n","e"," ","l","e","a","r","n","i","n","g"," ","p","r","o","j","e","c","t","s",".">>)
  @@ ("Led machine learning with Python" :> <<"L","e","d"," ","m","a","c","h","i","n","e"," ","l","e","a","r","n","i","n","g"," ","w","i","t","h"," ","P","y","t","h","o","n">>)
  @@ ("Led teams " :> <<"L","e","d"," ","t","e","a","m","s"," ">>)
  @@ ("MIT" :> <<"M","I","T">>)
  @@ ("My Resume" :> <<"M","y"," ","R","e","s","u","m","e">>)
  @@ ("NYC" :> <<"N","Y","C">>)
  @@ ("None" :> <<"N","o","n","e">>)
  @@ ("Present" :> <<"P","r","e","s","e","n","t">>)
  @@ ("Python" :> <<"P","y","t","h","o","n">>)
  @@ ("Python, Java and SQL." :> <<"P","y","t","h","o","n",","," ","J","a","v","a"," ","a","n","d"," ","S","Q","L",".">>)
  @@ ("Ran teams " :> <<"R","a","n"," ","t","e","a","m","s"," ">>)
  @@ ("SQL" :> <<"S","Q","L">>)
  @@ ("Skills" :> <<"S","k","i","l","l","s">>)
  @@ ("Studied Python and statistics" :> <<"S","t","u","d","i","e","d"," ","P","y","t","h","o","n"," ","a","n","d"," ","s","t","a","t","i","s","t","i","c","s">>)
  @@ ("Summary" :> <<"S","u","m","m","a","r","y">>)
  @@ ("Tableau" :> <<"T","a","b","l","e","a","u">>)
  @@ ("Teamwork; led 2 teams" :> <<"T","e","a","m","w","o","r","k",";"," ","l","e","d"," ","2"," ","t","e","a","m","s">>)
  @@ ("True" :> <<"T","r","u","e">>)
  @@ ("USA" :> <<"U","S","A">>)
  @@ ("a@b.com" :> <<"a","@","b",".","c","o","m">>)
  @@ ("abc" :> <<"a","b","c">>)
  @@ ("achieved" :> <<"a","c","h","i","e","v","e","d">>)
  @@ ("adaptability" :> <<"a","d","a","p","t","a","b","i","l","i","t","y">>)
  @@ ("address" :> <<"a","d","d","r","e","s","s">>)
  @@ ("agile" :> <<"a","g","i","l","e">>)
  @@ ("ai_enhanced" :> <<"a","i","_","e","n","h","a","n","c","e","d">>)
  @@ ("analyzed" :> <<"a","n","a","l","y","z","e","d">>)
  @@ ("ats_score" :> <<"a","t","s","_","s","c","o","r","e">>)
  @@ ("avatar_url" :> <<"a","v","a","t","a","r","_","u","r","l">>)
  @@ ("aws" :> <<"a","w","s">>)
  @@ ("category" :> <<"c","a","t","e","g","o","r","y">>)
  @@ ("certifications" :> <<"c","e","r","t","i","f","i","c","a","t","i","o","n","s">>)
  @@ ("city" :> <<"c","i","t","y">>)
  @@ ("cloud" :> <<"c","l","o","u","d">>)
  @@ ("collaboration" :> <<"c","o","l","l","a","b","o","r","a","t","i","o","n">>)
  @@ ("communication" :> <<"c","o","m","m","u","n","i","c","a","t","i","o","n">>)
  @@ ("company" :> <<"c","o","m","p","a","n","y">>)
  @@ ("content" :> <<"c","o","n","t","e","n","t">>)
  @@ ("coordinated" :> <<"c","o","o","r","d","i","n","a","t","e","d">>)
  @@ ("country" :> <<"c","o","u","n","t","r","y">>)
  @@ ("created" :> <<"c","r","e","a","t","e","d">>)
  @@ ("created_at" :> <<"c","r","e","a","t","e","d","_","a","t">>)
  @@ ("creativity" :> <<"c","r","e","a","t","i","v","i","t","y">>)
  @@ ("critical thinking" :> <<"c","r","i","t","i","c","a","l"," ","t","h","i","n","k","i","n","g">>)
  @@ ("css" :> <<"c","s","s">>)
  @@ ("data analysis" :> <<"d","a","t","a"," ","a","n","a","l","y","s","i","s">>)
  @@ ("decreased" :> <<"d","e","c","r","e","a","s","e","d">>)
  @@ ("degree" :> <<"d","e","g","r","e","e">>)
  @@ ("description" :> <<"d","e","s","c","r","i","p","t","i","o","n">>)
  @@ ("designed" :> <<"d","e","s","i","g","n","e","d">>)
  @@ ("developed" :> <<"d","e","v","e","l","o","p","e","d">>)
  @@ ("docker" :> <<"d","o","c","k","e","r">>)
  @@ ("docx_downloads" :> <<"d","o","c","x","_","d","o","w","n","l","o","a","d","s">>)
  @@ ("education" :> <<"e","d","u","c","a","t","i","o","n">>)
  @@ ("email" :> <<"e","m","a","i","l">>)
  @@ ("end_date" :> <<"e","n","d","_","d","a","t","e">>)
  @@ ("excel" :> <<"e","x","c","e","l">>)
  @@ ("experience" :> <<"e","x","p","e","r","i","e","n","c","e">>)
  @@ ("experiences" :> <<"e","x","p","e","r","i","e","n","c","e","s">>)
  @@ ("expert" :> <<"e","x","p","e","r","t">>)
  @@ ("field_of_study" :> <<"f","i","e","l","d","_","o","f","_","s","t","u","d","y">>)
  @@ ("full_name" :> <<"f","u","l","l","_","n","a","m","e">>)
  @@ ("git" :> <<"g","i","t">>)
  @@ ("github" :> <<"g","i","t","h","u","b">>)
  @@ ("gpa" :> <<"g","p","a">>)
  @@ ("html" :> <<"h","t","m","l">>)
  @@ ("id" :> <<"i","d">>)
  @@ ("implemented" :> <<"i","m","p","l","e","m","e","n","t","e","d">>)
  @@ ("improved" :> <<"i","m","p","r","o","v","e","d">>)
  @@ ("increased" :> <<"i","n","c","r","e","a","s","e","d">>)
  @@ ("initiative" :> <<"i","n","i","t","i","a","t","i","v","e">>)
  @@ ("institution" :> <<"i","n","s","t","i","t","u","t","i","o","n">>)
  @@ ("is_complete" :> <<"i","s","_","c","o","m","p","l","e","t","e">>)
  @@ ("is_current" :> <<"i","s","_","c","u","r","r","e","n","t">>)
  @@ ("is_public" :> <<"i","s","_","p","u","b","l","i","c">>)
  @@ ("java" :> <<"j","a","v","a">>)
  @@ ("javascript" :> <<"j","a","v","a","s","c","r","i","p","t">>)
  @@ ("kubernetes" :> <<"k","u","b","e","r","n","e","t","e","s">>)
  @@ ("leadership" :> <<"l","e","a","d","e","r","s","h","i","p">>)
  @@ ("led" :> <<"l","e","d">>)
  @@ ("level" :> <<"l","e","v","e","l">>)
  @@ ("linkedin" :> <<"l","i","n","k","e","d","i","n">>)
  @@ ("location" :> <<"l","o","c","a","t","i","o","n">>)
  @@ ("machine learning" :> <<"m","a","c","h","i","n","e"," ","l","e","a","r","n","i","n","g">>)
  @@ ("managed" :> <<"m","a","n","a","g","e","d">>)
  @@ ("modern" :> <<"m","o","d","e","r","n">>)
  @@ ("month" :> <<"m","o","n","t","h">>)
  @@ ("my-resume-1a2b3c4d" :> <<"m","y","-","r","e","s","u","m","e","-","1","a","2","b","3","c","4","d">>)
  @@ ("name" :> <<"n","a","m","e">>)
  @@ ("node" :> <<"n","o","d","e">>)
  @@ ("not-an-email" :> <<"n","o","t","-","a","n","-","e","m","a","i","l">>)
  @@ ("order" :> <<"o","r","d","e","r">>)
  @@ ("organized" :> <<"o","r","g","a","n","i","z","e","d">>)
  @@ ("pdf_downloads" :> <<"p","d","f","_","d","o","w","n","l","o","a","d","s">>)
  @@ ("phone" :> <<"p","h","o","n","e">>)
  @@ ("png_downloads" :> <<"p","n","g","_","d","o","w","n","l","o","a","d","s">>)
  @@ ("portfolio" :> <<"p","o","r","t","f","o","l","i","o">>)
  @@ ("position" :> <<"p","o","s","i","t","i","o","n">>)
  @@ ("presented" :> <<"p","r","e","s","e","n","t","e","d">>)
  @@ ("problem solving" :> <<"p","r","o","b","l","e","m"," ","s","o","l","v","i","n","g">>)
  @@ ("project management" :> <<"p","r","o","j","e","c","t"," ","m","a","n","a","g","e","m","e","n","t">>)
  @@ ("projects" :> <<"p","r","o","j","e","c","t","s">>)
  @@ ("python" :> <<"p","y","t","h","o","n">>)
  @@ ("react" :> <<"r","e","a","c","t">>)
  @@ ("resume_id" :> <<"r","e","s","u","m","e","_","i","d">>)
  @@ ("scrum" :> <<"s","c","r","u","m">>)
  @@ ("share_token" :> <<"s","h","a","r","e","_","t","o","k","e","n">>)
  @@ ("skills" :> <<"s","k","i","l","l","s">>)
  @@ ("slug" :> <<"s","l","u","g">>)
  @@ ("sql" :> <<"s","q","l">>)
  @@ ("start_date" :> <<"s","t","a","r","t","_","d","a","t","e">>)
  @@ ("statistics" :> <<"s","t","a","t","i","s","t","i","c","s">>)
  @@ ("summary" :> <<"s","u","m","m","a","r","y">>)
  @@ ("table" :> <<"t","a","b","l","e">>)
  @@ ("teamwork" :> <<"t","e","a","m","w","o","r","k">>)
  @@ ("technical" :> <<"t","e","c","h","n","i","c","a","l">>)
  @@ ("template_id" :> <<"t","e","m","p","l","a","t","e","_","i","d">>)
  @@ ("template_name" :> <<"t","e","m","p","l","a","t","e","_","n","a","m","e">>)
  @@ ("time management" :> <<"t","i","m","e"," ","m","a","n","a","g","e","m","e","n","t">>)
  @@ ("title" :> <<"t","i","t","l","e">>)
  @@ ("trained" :> <<"t","r","a","i","n","e","d">>)
  @@ ("updated_at" :> <<"u","p","d","a","t","e","d","_","a","t">>)
  @@ ("user_id" :> <<"u","s","e","r","_","i","d">>)
  @@ ("view_count" :> <<"v","i","e","w","_","c","o","u","n","t">>)
  @@ ("website" :> <<"w","e","b","s","i","t","e">>)
  @@ ("year" :> <<"y","e","a","r">>)
  @@ ("years_of_experience" :> <<"y","e","a","r","s","_","o","f","_","e","x","p","e","r","i","e","n","c","e">>)

(***************************************************************************)
(* Python values.                                                          *)
(***************************************************************************)
None == [t |-> "none"]

S(lit) == [t |-> "str", v |-> Chars[lit]]

I(n) == [t |-> "int", v |-> n]

B(b) == [t |-> "bool", v |-> b]

L(seq) == [t |-> "list", v |-> seq]

D(f) == [t |-> "dict", v |-> f]

EmptyDict == D(<<>>)

\* bool(v): the truth value of a Python object
Truthy(x) ==
  CASE x.t = "none" -> FALSE
    [] x.t = "bool" -> x.v
    [] x.t = "int"  -> x.v # 0
    [] x.t = "str"  -> Len(x.v) > 0
    [] x.t = "list" -> Len(x.v) > 0
    [] x.t = "dict" -> DOMAIN x.v # {}

\* dict.get(key, default)
Get(d, key, default) == IF key \in DOMAIN d.v THEN d.v[key] ELSE default

(***************************************************************************)
(* Python str operations on character sequences.                           *)
(***************************************************************************)
LowerLetters ==
  <<"a","b","c","d","e","f","g","h","i","j","k","l","m",
    "n","o","p","q","r","s","t","u","v","w","x","y","z">>

UpperLetters ==
  <<"A","B","C","D","E","F","G","H","I","J","K","L","M",
    "N","O","P","Q","R","S","T","U","V","W","X","Y","Z">>

Digits == {"0","1","2","3","4","5","6","7","8","9"}

Whitespace == {" ", "\t", "\n"}

\* [a-zA-Z]
AsciiLetters ==
  {LowerLetters[i] : i \in 1..26} \cup {UpperLetters[i] : i \in 1..26}

\* \w of a str pattern: letters, digits and the underscore
WordChars == AsciiLetters \cup Digits \cup {"_"}

ToLower == [c \in {UpperLetters[i] : i \in 1..26} |->
              LowerLetters[CHOOSE i \in 1..26 : UpperLetters[i] = c]]

\* str.lower()
Lower(s) ==
  <<>> \o [i \in 1..Len(s) |-> IF s[i] \in DOMAIN ToLower THEN ToLower[s[i]] ELSE s[i]]

\* pat in s
Contains(s, pat) ==
  \/ pat = <<>>
  \/ \E i \in {k \in 1..(Len(s) - Len(pat) + 1) : s[k] = pat[1]} :
       \A j \in 2..Len(pat) : s[i + j - 1] = pat[j]

\* str.endswith(suffix)
EndsWith(s, suffix) ==
  /\ Len(s) >= Len(suffix)
  /\ \A j \in 1..Len(suffix) : s[Len(s) - Len(suffix) + j] = suffix[j]

RECURSIVE Flatten(_)
\* ''.join(parts)
Flatten(parts) ==
  IF parts = <<>> THEN <<>> ELSE Head(parts) \o Flatten(Tail(parts))

RECURSIVE JoinWith(_, _)
\* sep.join(parts), parts a sequence of character sequences
JoinWith(sep, parts) ==
  IF parts = <<>> THEN <<>>
  ELSE IF Len(parts) = 1 THEN parts[1]
  ELSE parts[1] \o sep \o JoinWith(sep, Tail(parts))

RECURSIVE Word(_)
\* the string that a character sequence spells
Word(s) ==
  IF s = <<>> THEN ""
  ELSE IF Len(s) = 1 THEN s[1]
  ELSE Word(SubSeq(s, 1, Len(s) \div 2)) \o Word(SubSeq(s, Len(s) \div 2 + 1, Len(s)))

RECURSIVE WordEnd(_, _)
\* last index of the run of \w characters that starts at index i
WordEnd(s, i) ==
  IF i < Len(s) /\ s[i + 1] \in WordChars THEN WordEnd(s, i + 1) ELSE i

\* set(re.findall(r'\b[a-zA-Z]{3,}\b', s)): with \b on both sides a match is
\* a whole run of \w characters, all of them ASCII letters, at least three
FindWords(s) ==
  LET starts == {i \in 1..Len(s) :
                   /\ s[i] \in WordChars
                   /\ (i = 1 \/ s[i - 1] \notin WordChars)}
      isMatch(i) == LET j == WordEnd(s, i)
                    IN  /\ j - i + 1 >= 3
                        /\ \A k \in i..j : s[k] \in AsciiLetters
  IN  {Word(SubSeq(s, i, WordEnd(s, i))) : i \in {k \in starts : isMatch(k)}}

(***************************************************************************)
(* str(resume_data): the repr of a JSON-like value.  A dict is printed in  *)
(* insertion order; KeyOrder lists the keys in an order that agrees with   *)
(* the order in which every to_dict of models/resume.py inserts them.      *)
(***************************************************************************)
KeyOrder ==
  <<"id", "resume_id", "user_id", "title", "slug", "template_id",
    "template_name", "full_name", "email", "phone", "address", "city",
    "country", "linkedin", "github", "portfolio", "website", "avatar_url",
    "summary", "is_public", "share_token", "view_count", "pdf_downloads",
    "docx_downloads", "png_downloads", "ats_score", "is_complete",
    "created_at", "updated_at", "content", "experiences", "education",
    "skills", "projects", "certifications",
    "company", "position", "institution", "degree", "field_of_study",
    "location", "start_date", "end_date", "is_current", "gpa",
    "description", "ai_enhanced", "name", "category", "level",
    "years_of_experience", "order">>

\* the keys of a dict in insertion order
Keys(d) == SelectSeq(KeyOrder, LAMBDA k : k \in DOMAIN d.v)

RECURSIVE ReprNat(_)
ReprNat(n) ==
  LET digit == <<"0","1","2","3","4","5","6","7","8","9">>[(n % 10) + 1]
  IN  IF n < 10 THEN <<digit>> ELSE ReprNat(n \div 10) \o <<digit>>

\* repr(int)
ReprInt(n) == IF n < 0 THEN <<"-">> \o ReprNat(-n) ELSE ReprNat(n)

\* repr(str)
ReprStr(s) ==
  LET hasSingle == \E i \in 1..Len(s) : s[i] = "'"
      hasDouble == \E i \in 1..Len(s) : s[i] = "\""
      quote == IF hasSingle /\ ~hasDouble THEN "\"" ELSE "'"
      esc(c) == CASE c = "\\" -> <<"\\", "\\">>
                  [] c = "\n" -> <<"\\", "n">>
                  [] c = "\t" -> <<"\\", "t">>
                  [] c = quote -> <<"\\", c>>
                  [] OTHER -> <<c>>
      plain == \A i \in 1..Len(s) : s[i] \notin {"\\", "\n", "\t", quote}
  IN  IF plain THEN <<quote>> \o s \o <<quote>>
      ELSE <<quote>> \o Flatten([i \in 1..Len(s) |-> esc(s[i])]) \o <<quote>>

RECURSIVE Repr(_)
\* repr(x) of None, bool, int, str, list and dict
Repr(x) ==
  CASE x.t = "none" -> Chars["None"]
    [] x.t = "bool" -> IF x.v THEN Chars["True"] ELSE Chars["False"]
    [] x.t = "int"  -> ReprInt(x.v)
    [] x.t = "str"  -> ReprStr(x.v)
    [] x.t = "list" ->
         <<"[">> \o JoinWith(Chars[", "], [i \in 1..Len(x.v) |-> Repr(x.v[i])])
                 \o <<"]">>
    [] x.t = "dict" ->
         LET ks == Keys(x)
         IN  <<"{">> \o JoinWith(Chars[", "],
                          [i \in 1..Len(ks) |->
                             ReprStr(Chars[ks[i]]) \o Chars[": "]
                                                   \o Repr(x.v[ks[i]])])
                     \o <<"}">>

(***************************************************************************)
(* Iteration and len() over a Python value.                                *)
(***************************************************************************)
\* objects that "for e in x" accepts; any other raises TypeError
Iterable(x) == x.t \in {"list", "str", "dict"}

\* the sequence "for e in x" runs through: the items of a list, the
\* one-character strings of a str, the keys of a dict
Iter(x) ==
  CASE x.t = "list" -> x.v
    [] x.t = "str"  -> [i \in 1..Len(x.v) |-> [t |-> "str", v |-> <<x.v[i]>>]]
    [] x.t = "dict" -> LET ks == Keys(x)
                       IN  [i \in 1..Len(ks) |-> [t |-> "str", v |-> Chars[ks[i]]]]

\* objects that len(x) accepts; any other raises TypeError
Sized(x) == x.t \in {"list", "str", "dict"}

\* len(x)
PyLen(x) == IF x.t = "dict" THEN Cardinality(DOMAIN x.v) ELSE Len(x.v)

\* No exception raised
NoExc == "ok"

\* the first exception of a sequence of evaluation steps
FirstExc(steps) ==
  IF \E i \in 1..Len(steps) : steps[i] # NoExc
  THEN steps[CHOOSE i \in 1..Len(steps) :
               /\ steps[i] # NoExc
               /\ \A j \in 1..(i - 1) : steps[j] = NoExc]
  ELSE NoExc

(***************************************************************************)
(* ATSScorer.__init__: the keyword dictionary of a scorer.                 *)
(***************************************************************************)
ATSScorerInit ==
  [technical |->
     <<"python", "java", "javascript", "sql", "html", "css", "react", "node",
       "aws", "cloud", "docker", "kubernetes", "git", "agile", "scrum",
       "machine learning", "data analysis", "excel", "statistics",
       "project management", "communication", "leadership", "problem solving">>,
   soft_skills |->
     <<"teamwork", "collaboration", "communication", "leadership",
       "problem solving", "critical thinking", "time management",
       "adaptability", "creativity", "initiative">>,
   action_verbs |->
     <<"achieved", "led", "developed", "created", "implemented",
       "managed", "increased", "decreased", "improved", "designed",
       "organized", "coordinated", "analyzed", "presented", "trained">>]

(***************************************************************************)
(* State.                                                                  *)
(*   keywords     self.keywords of the ATSScorer serving the requests      *)
(*   resume       the stored Resume row (with its entry rows)              *)
(*   request      the JSON body of the ats-check request                   *)
(*   call         the last invocation of analyze_resume_data: its          *)
(*                arguments and what it returned                           *)
(*   response     the HTTP response to the last request                    *)
(***************************************************************************)
VARIABLES keywords, resume, request, call, response, endpoint, extraction,
          running, frames

vars == <<keywords, resume, request, call, response, endpoint, extraction,
          running, frames>>

(***************************************************************************)
(* Section checkers.  Each checker comes with the exception it raises on   *)
(* the given data (NoExc when it returns normally).                        *)
(***************************************************************************)
\* _check_contact_info counting city and country separately
_check_contact_info_separate(resume_data) ==
  (IF Truthy(Get(resume_data, "email", None)) THEN 25 ELSE 0)
  + (IF Truthy(Get(resume_data, "phone", None)) THEN 25 ELSE 0)
  + (IF Truthy(Get(resume_data, "city", None)) THEN 25 ELSE 0)
  + (IF Truthy(Get(resume_data, "country", None)) THEN 25 ELSE 0)
  + (IF Truthy(Get(resume_data, "full_name", None)) THEN 25 ELSE 0)

_check_contact_info(resume_data) ==
  (IF Truthy(Get(resume_data, "email", None)) THEN 25 ELSE 0)
  + (IF Truthy(Get(resume_data, "phone", None)) THEN 25 ELSE 0)
  + (IF Truthy(Get(resume_data, "city", None))
        \/ Truthy(Get(resume_data, "country", None)) THEN 25 ELSE 0)
  + (IF Truthy(Get(resume_data, "full_name", None)) THEN 25 ELSE 0)

Min(a, b) == IF a < b THEN a ELSE b

Max(a, b) == IF a > b THEN a ELSE b

\* len(summary) needs a sized object, summary.lower() a str
_check_summary_exc(resume_data) ==
  LET summary == Get(resume_data, "summary", S(""))
  IN  IF ~Truthy(summary) THEN NoExc
      ELSE IF ~Sized(summary) THEN "TypeError"
      ELSE IF summary.t # "str" THEN "AttributeError"
      ELSE NoExc

\* _check_summary with the length bonus for 100 < len(summary) < 500
_check_summary_open(resume_data) ==
  LET summary == Get(resume_data, "summary", S(""))
  IN  IF ~Truthy(summary) THEN 0
      ELSE
        LET n == Len(summary.v)
            summary_lower == Lower(summary.v)
            verbs == SubSeq(keywords["action_verbs"], 1, 5)
            s1 == 30
            s2 == IF 100 < n /\ n < 500 THEN s1 + 25
                  ELSE IF n > 500 THEN s1 + 15 ELSE s1
            s3 == IF \E i \in 1..Len(verbs) : Contains(summary_lower, Chars[verbs[i]])
                  THEN s2 + 20 ELSE s2
            s4 == IF ~EndsWith(summary.v, <<".">>) THEN s3 - 10 ELSE s3
        IN  Min(100, Max(0, s4))

_check_summary(resume_data) ==
  LET summary == Get(resume_data, "summary", S(""))
  IN  IF ~Truthy(summary) THEN 0
      ELSE
        LET n == Len(summary.v)
            summary_lower == Lower(summary.v)
            verbs == SubSeq(keywords["action_verbs"], 1, 5)
            s1 == 30
            s2 == IF 100 <= n /\ n <= 500 THEN s1 + 25
                  ELSE IF n > 500 THEN s1 + 15 ELSE s1
            s3 == IF \E i \in 1..Len(verbs) : Contains(summary_lower, Chars[verbs[i]])
                  THEN s2 + 20 ELSE s2
            s4 == IF ~EndsWith(summary.v, <<".">>) THEN s3 - 10 ELSE s3
        IN  Min(100, Max(0, s4))

\* the default of the outer get is evaluated first:
\* resume_data.get('content', {}).get(key, [])
ContentExc(resume_data) ==
  IF Get(resume_data, "content", EmptyDict).t # "dict"
  THEN "AttributeError" ELSE NoExc

\* resume_data.get(key, resume_data.get('content', {}).get(key, []))
Section(resume_data, key) ==
  Get(resume_data, key, Get(Get(resume_data, "content", EmptyDict), key, L(<<>>)))

\* e.get(...) for every e of the iteration needs dicts
ItemsExc(x) ==
  IF ~Iterable(x) THEN "TypeError"
  ELSE IF \E i \in 1..Len(Iter(x)) : Iter(x)[i].t # "dict" THEN "AttributeError"
  ELSE NoExc

\* any(e.get(key) for e in x): any() stops at the first true item, so an item
\* that is not a dict raises only when no earlier item has a true value
AnyGetExc(x, key) ==
  IF ~Iterable(x) THEN "TypeError"
  ELSE LET items == Iter(x)
       IN  IF \E i \in 1..Len(items) :
                /\ items[i].t # "dict"
                /\ \A j \in 1..(i - 1) : ~Truthy(Get(items[j], key, None))
           THEN "AttributeError" ELSE NoExc

\* re.search(r'\d+%|\$\d+|\d+\s*(?:years?|months?)', desc)
HasAchievement(desc) ==
  LET at(i, pat) == /\ i + Len(pat) - 1 <= Len(desc)
                    /\ \A j \in 1..Len(pat) : desc[i + j - 1] = pat[j]
  IN  \E i \in 1..Len(desc) :
        \/ /\ desc[i] \in Digits
           /\ i < Len(desc)
           /\ desc[i + 1] = "%"
        \/ /\ desc[i] = "$"
           /\ i < Len(desc)
           /\ desc[i + 1] \in Digits
        \/ /\ desc[i] \in Digits
           /\ \E j \in (i + 1)..Len(desc) :
                /\ \A k \in (i + 1)..(j - 1) : desc[k] \in Whitespace
                /\ at(j, Chars["year"]) \/ at(j, Chars["month"])

\* index of the entry at which the achievements loop stops: the first entry
\* whose description is not a str (re.search raises) or matches (break)
LoopStop(entries) ==
  LET desc(i) == Get(entries[i], "description", S(""))
      stops(i) == desc(i).t # "str" \/ HasAchievement(desc(i).v)
  IN  IF \E i \in 1..Len(entries) : stops(i)
      THEN CHOOSE i \in 1..Len(entries) :
             stops(i) /\ \A j \in 1..(i - 1) : ~stops(j)
      ELSE 0

_check_experience_exc(resume_data) ==
  IF ContentExc(resume_data) # NoExc THEN ContentExc(resume_data)
  ELSE
    LET experiences == Section(resume_data, "experiences")
    IN  IF ~Truthy(experiences) THEN NoExc
        ELSE IF ~Sized(experiences) THEN "TypeError"
        ELSE IF ItemsExc(experiences) # NoExc THEN ItemsExc(experiences)
        ELSE LET entries == Iter(experiences)
                 stop == LoopStop(entries)
             IN  IF stop # 0 /\ Get(entries[stop], "description", S("")).t # "str"
                 THEN "TypeError" ELSE NoExc

\* _check_experience without the exit for an empty list
_check_experience_no_exit(resume_data) ==
  LET experiences == Section(resume_data, "experiences")
      entries == IF Iterable(experiences) THEN Iter(experiences) ELSE <<>>
      n == Len(entries)
      s1 == 30
      s2 == IF n >= 2 THEN s1 + 20 ELSE IF n >= 1 THEN s1 + 10 ELSE s1
      has_descriptions ==
        Cardinality({i \in 1..n : Truthy(Get(entries[i], "description", None))})
      s3 == IF has_descriptions >= n \div 2 THEN s2 + 25 ELSE s2
      achievements_found == LoopStop(entries) # 0
      s4 == IF achievements_found THEN s3 + 25 ELSE s3
  IN  Min(100, s4)

\* _check_experience with 25 points for two or more entries
_check_experience_count25(resume_data) ==
  LET experiences == Section(resume_data, "experiences")
  IN  IF ~Truthy(experiences) THEN 0
      ELSE
        LET entries == Iter(experiences)
            n == Len(entries)
            s1 == 30
            s2 == IF n >= 2 THEN s1 + 25 ELSE IF n >= 1 THEN s1 + 10 ELSE s1
            has_descriptions ==
              Cardinality({i \in 1..n : Truthy(Get(entries[i], "description", None))})
            s3 == IF has_descriptions >= n \div 2 THEN s2 + 25 ELSE s2
            achievements_found == LoopStop(entries) # 0
            s4 == IF achievements_found THEN s3 + 25 ELSE s3
        IN  Min(100, s4)

\* _check_experience with the description bonus for at least half of the
\* entries, without rounding down
_check_experience_half(resume_data) ==
  LET experiences == Section(resume_data, "experiences")
  IN  IF ~Truthy(experiences) THEN 0
      ELSE
        LET entries == Iter(experiences)
            n == Len(entries)
            s1 == 30
            s2 == IF n >= 2 THEN s1 + 20 ELSE IF n >= 1 THEN s1 + 10 ELSE s1
            has_descriptions ==
              Cardinality({i \in 1..n : Truthy(Get(entries[i], "description", None))})
            s3 == IF 2 * has_descriptions >= n THEN s2 + 25 ELSE s2
            achievements_found == LoopStop(entries) # 0
            s4 == IF achievements_found THEN s3 + 25 ELSE s3
        IN  Min(100, s4)

_check_experience(resume_data) ==
  LET experiences == Section(resume_data, "experiences")
  IN  IF ~Truthy(experiences) THEN 0
      ELSE
        LET entries == Iter(experiences)
            n == Len(entries)
            s1 == 30
            s2 == IF n >= 2 THEN s1 + 20 ELSE IF n >= 1 THEN s1 + 10 ELSE s1
            has_descriptions ==
              Cardinality({i \in 1..n : Truthy(Get(entries[i], "description", None))})
            s3 == IF has_descriptions >= n \div 2 THEN s2 + 25 ELSE s2
            achievements_found == LoopStop(entries) # 0
            s4 == IF achievements_found THEN s3 + 25 ELSE s3
        IN  Min(100, s4)

_check_education_exc(resume_data) ==
  IF ContentExc(resume_data) # NoExc THEN ContentExc(resume_data)
  ELSE
    LET education == Section(resume_data, "education")
    IN  IF ~Truthy(education) THEN NoExc
        ELSE FirstExc(<<AnyGetExc(education, "degree"),
                        AnyGetExc(education, "institution")>>)

\* _check_education adding the bonuses once per entry
_check_education_per_entry(resume_data) ==
  LET education == Section(resume_data, "education")
  IN  IF ~Truthy(education) THEN 0
      ELSE
        LET entries == Iter(education)
            degrees ==
              Cardinality({i \in 1..Len(entries) :
                             Truthy(Get(entries[i], "degree", None))})
            institutions ==
              Cardinality({i \in 1..Len(entries) :
                             Truthy(Get(entries[i], "institution", None))})
        IN  Min(100, 40 + 30 * degrees + 20 * institutions)

\* _check_education with 30 points for an institution
_check_education_institution30(resume_data) ==
  LET education == Section(resume_data, "education")
  IN  IF ~Truthy(education) THEN 0
      ELSE
        LET entries == Iter(education)
            s1 == 40
            has_degree ==
              \E i \in 1..Len(entries) : Truthy(Get(entries[i], "degree", None))
            s2 == IF has_degree THEN s1 + 30 ELSE s1
            has_institution ==
              \E i \in 1..Len(entries) : Truthy(Get(entries[i], "institution", None))
            s3 == IF has_institution THEN s2 + 30 ELSE s2
        IN  Min(100, s3)

_check_education(resume_data) ==
  LET education == Section(resume_data, "education")
  IN  IF ~Truthy(education) THEN 0
      ELSE
        LET entries == Iter(education)
            s1 == 40
            has_degree ==
              \E i \in 1..Len(entries) : Truthy(Get(entries[i], "degree", None))
            s2 == IF has_degree THEN s1 + 30 ELSE s1
            has_institution ==
              \E i \in 1..Len(entries) : Truthy(Get(entries[i], "institution", None))
            s3 == IF has_institution THEN s2 + 20 ELSE s2
        IN  Min(100, s3)

_check_skills_exc(resume_data) ==
  IF ContentExc(resume_data) # NoExc THEN ContentExc(resume_data)
  ELSE
    LET skills == Section(resume_data, "skills")
    IN  IF ~Truthy(skills) THEN NoExc
        ELSE IF ~Sized(skills) THEN "TypeError"
        ELSE FirstExc(<<AnyGetExc(skills, "category"),
                        AnyGetExc(skills, "level")>>)

\* _check_skills with the larger count bonus for more than 10 skills
_check_skills_over10(resume_data) ==
  LET skills == Section(resume_data, "skills")
  IN  IF ~Truthy(skills) THEN 0
      ELSE
        LET entries == Iter(skills)
            n == Len(entries)
            s1 == 30
            s2 == IF n > 10 THEN s1 + 25 ELSE IF n >= 5 THEN s1 + 15 ELSE s1
            has_categories ==
              \E i \in 1..n : Truthy(Get(entries[i], "category", None))
            s3 == IF has_categories THEN s2 + 20 ELSE s2
            has_levels == \E i \in 1..n : Truthy(Get(entries[i], "level", None))
            s4 == IF has_levels THEN s3 + 25 ELSE s3
        IN  Min(100, s4)

_check_skills(resume_data) ==
  LET skills == Section(resume_data, "skills")
  IN  IF ~Truthy(skills) THEN 0
      ELSE
        LET entries == Iter(skills)
            n == Len(entries)
            s1 == 30
            s2 == IF n >= 10 THEN s1 + 25 ELSE IF n >= 5 THEN s1 + 15 ELSE s1
            has_categories ==
              \E i \in 1..n : Truthy(Get(entries[i], "category", None))
            s3 == IF has_categories THEN s2 + 20 ELSE s2
            has_levels == \E i \in 1..n : Truthy(Get(entries[i], "level", None))
            s4 == IF has_levels THEN s3 + 25 ELSE s3
        IN  Min(100, s4)

\* _check_formatting without the clamp of the header bonus
_check_formatting_unclamped(resume_data) ==
  LET text == Repr(resume_data)
      s1 == 100
      s2 == IF Contains(Lower(text), Chars["table"]) THEN s1 - 30 ELSE s1
      headers == <<Chars["Experience"], Chars["Education"],
                   Chars["Skills"], Chars["Summary"]>>
      s3 == IF \E i \in 1..Len(headers) : Contains(text, headers[i])
            THEN s2 + 10 ELSE s2
  IN  s3

\* _check_formatting looking for the header words in any case
_check_formatting_any_case(resume_data) ==
  LET text == Repr(resume_data)
      s1 == 100
      s2 == IF Contains(Lower(text), Chars["table"]) THEN s1 - 30 ELSE s1
      headers == <<Chars["experience"], Chars["education"],
                   Chars["skills"], Chars["summary"]>>
      s3 == IF \E i \in 1..Len(headers) : Contains(Lower(text), headers[i])
            THEN s2 + 10 ELSE s2
  IN  Min(100, Max(0, s3))

_check_formatting(resume_data) ==
  LET text == Repr(resume_data)
      s1 == 100
      s2 == IF Contains(Lower(text), Chars["table"]) THEN s1 - 30 ELSE s1
      headers == <<Chars["Experience"], Chars["Education"],
                   Chars["Skills"], Chars["Summary"]>>
      s3 == IF \E i \in 1..Len(headers) : Contains(text, headers[i])
            THEN s2 + 10 ELSE s2
  IN  Min(100, Max(0, s3))

(***************************************************************************)
(* Python float: an IEEE 754 binary64 number.  The 53-bit significand is   *)
(* written in base 2^13 as five limbs <<1, a, b, c, d>>, so a positive     *)
(* float [t |-> "float", m |-> limbs, e |-> e] has the value               *)
(* (1 + a/2^13 + b/2^26 + c/2^39 + d/2^52) * 2^e.  Zero has m[1] = 0.      *)
(* Operations round to nearest, ties to even.                              *)
(***************************************************************************)
LimbBits == 13

Limbs == 5

RECURSIVE Pow2(_)
Pow2(k) == IF k = 0 THEN 1 ELSE 2 * Pow2(k - 1)

Base == Pow2(LimbBits)

FloatZero == [t |-> "float", m |-> [i \in 1..Limbs |-> 0], e |-> 0]

RECURSIVE Carry(_, _, _)
\* propagate carries from limb i upwards; the first limb takes what is left
Carry(x, i, c) ==
  IF i = 1 THEN <<x[1] + c>>
  ELSE Carry(x, i - 1, (x[i] + c) \div Base) \o <<(x[i] + c) % Base>>

\* x * k + c for a limb sequence x and small naturals k, c
MulAdd(x, k, c) == Carry([i \in 1..Len(x) |-> x[i] * k], Len(x), c)

\* x < y for limb sequences of the same length
LimbsLess(x, y) ==
  \E i \in 1..Len(x) : /\ x[i] < y[i]
                       /\ \A j \in 1..(i - 1) : x[j] = y[j]

RECURSIVE Normalize(_, _, _)
\* scale n / d by powers of two into [1, 2)
Normalize(n, d, e) ==
  IF n < d THEN Normalize(2 * n, d, e - 1)
  ELSE IF n >= 2 * d THEN Normalize(n, 2 * d, e + 1)
  ELSE [n |-> n, d |-> d, e |-> e]

RECURSIVE QuotientLimbs(_, _, _)
\* the first k limbs of the fraction r / d for r < d, then the remainder
QuotientLimbs(r, d, k) ==
  IF k = 0 THEN [limbs |-> <<>>, rem |-> r]
  ELSE LET next == QuotientLimbs((r * Base) % d, d, k - 1)
       IN  [limbs |-> <<(r * Base) \div d>> \o next.limbs, rem |-> next.rem]

\* round a significand to nearest, ties to even: guard is the first dropped
\* bit, sticky tells that a later dropped bit is set
Round(m, e, guard, sticky) ==
  LET up == guard /\ (sticky \/ m[Limbs] % 2 = 1)
      inc == MulAdd(m, 1, 1)
  IN  IF ~up THEN [t |-> "float", m |-> m, e |-> e]
      ELSE IF inc[1] = 2
      THEN [t |-> "float", m |-> [i \in 1..Limbs |-> IF i = 1 THEN 1 ELSE 0],
            e |-> e + 1]
      ELSE [t |-> "float", m |-> inc, e |-> e]

\* n / d for a natural n and a positive natural d (int / int is a float)
FloatDiv(n, d) ==
  IF n = 0 THEN FloatZero
  ELSE LET nm == Normalize(n, d, 0)
           q == QuotientLimbs(nm.n - nm.d, nm.d, Limbs)
           extra == q.limbs[Limbs]
       IN  Round(<<1>> \o SubSeq(q.limbs, 1, Limbs - 1), nm.e,
                 extra >= Base \div 2,
                 extra % (Base \div 2) # 0 \/ q.rem # 0)

RECURSIVE BitLength(_)
BitLength(n) == IF n = 0 THEN 0 ELSE 1 + BitLength(n \div 2)

\* x * k for a float x and a natural k, 0 < k < 2^13
FloatMul(x, k) ==
  IF x.m[1] = 0 THEN FloatZero
  ELSE LET prod == MulAdd(x.m, k, 0)
           s == BitLength(prod[1]) - 1
           p == Pow2(s)
           shifted == [i \in 1..Limbs |->
                         (IF i = 1 THEN 0 ELSE (prod[i - 1] % p) * (Base \div p))
                         + prod[i] \div p]
           dropped == prod[Limbs] % p
       IN  IF s = 0 THEN [t |-> "float", m |-> prod, e |-> x.e]
           ELSE Round(shifted, x.e + s,
                      dropped >= p \div 2, dropped % (p \div 2) # 0)

\* the float whose value is the natural number n, 0 < n < 2^13
IsNat(x, n) ==
  IF n = 0 THEN x.m[1] = 0
  ELSE LET len == BitLength(n)
       IN  /\ x.e = len - 1
           /\ x.m = <<1, (n * Pow2(LimbBits - (len - 1))) % Base>>
                    \o [i \in 1..(Limbs - 2) |-> 0]

\* the integers x * d * 2^52 and n * 2^52 as limb sequences scaled alike
\* (x * d is multiplied by 2^e when e >= 0, n by 2^-e otherwise), and the
\* unit in the last place of x times d at that scale
Scaled(x, d, n) ==
  LET up == IF x.e >= 0 THEN Pow2(x.e) ELSE 1
      down == IF x.e < 0 THEN Pow2(-x.e) ELSE 1
  IN  [a |-> MulAdd(MulAdd(x.m, d, 0), up, 0),
       b |-> <<n * down>> \o [i \in 1..(Limbs - 1) |-> 0],
       ulp |-> d * up]

\* x * d = n in exact arithmetic
ExactProduct(x, d, n) ==
  IF x.m[1] = 0 THEN n = 0
  ELSE LET ab == Scaled(x, d, n) IN ab.a = ab.b

\* | x * d - n | <= k * d units in the last place of x
WithinUlps(x, d, n, k) ==
  IF x.m[1] = 0 THEN n = 0
  ELSE LET ab == Scaled(x, d, n)
       IN  /\ ~LimbsLess(MulAdd(ab.a, 1, k * ab.ulp), ab.b)
           /\ ~LimbsLess(MulAdd(ab.b, 1, k * ab.ulp), ab.a)

\* x <= n for a float x and a natural n
FloatLeq(x, n) ==
  IF x.m[1] = 0 THEN TRUE
  ELSE LET ab == Scaled(x, 1, n) IN ~LimbsLess(ab.b, ab.a)

(***************************************************************************)
(* Keyword matcher.                                                        *)
(***************************************************************************)
Range(seq) == {seq[i] : i \in 1..Len(seq)}

\* list(s) of a set of str: the iteration order of a set depends on the hash
\* seed of the interpreter, drawn anew at each start of the service, and not
\* on the elements alone, so every enumeration of the set is a possible
\* outcome
ListOf(s) ==
  {f \in [1..Cardinality(s) -> s] : \A i, j \in DOMAIN f : i # j => f[i] # f[j]}

\* all_keywords: the union of the three categories
AllKeywords ==
  Range(keywords["technical"]) \cup Range(keywords["soft_skills"])
    \cup Range(keywords["action_verbs"])

\* [e.get(key, '') for e in resume_data.get(section, [])]
TextsOf(resume_data, section, key) ==
  LET items == Iter(Get(resume_data, section, L(<<>>)))
  IN  [i \in 1..Len(items) |-> Get(items[i], key, S(""))]

\* ' '.join(parts) raises TypeError for a part that is not a str
JoinExc(parts) ==
  IF \E i \in 1..Len(parts) : parts[i].t # "str" THEN "TypeError" ELSE NoExc

\* the pieces of all_text of _analyze_keywords
ResumeTextParts(resume_data) ==
  <<Get(resume_data, "summary", S("")),
    Get(Get(resume_data, "content", EmptyDict), "summary", S("")),
    [t |-> "str",
     v |-> JoinWith(<<" ">>,
             [i \in 1..Len(TextsOf(resume_data, "experiences", "description")) |->
                TextsOf(resume_data, "experiences", "description")[i].v])],
    [t |-> "str",
     v |-> JoinWith(<<" ">>,
             [i \in 1..Len(TextsOf(resume_data, "skills", "name")) |->
                TextsOf(resume_data, "skills", "name")[i].v])]>>

\* job_description.lower() needs a str
JobWordsExc(job_description) ==
  IF Truthy(job_description) /\ job_description.t # "str"
  THEN "AttributeError" ELSE NoExc

_analyze_keywords_exc(resume_data, job_description) ==
  IF ContentExc(resume_data) # NoExc THEN ContentExc(resume_data)
  ELSE IF ItemsExc(Get(resume_data, "experiences", L(<<>>))) # NoExc
  THEN ItemsExc(Get(resume_data, "experiences", L(<<>>)))
  ELSE IF JoinExc(TextsOf(resume_data, "experiences", "description")) # NoExc
  THEN "TypeError"
  ELSE IF ItemsExc(Get(resume_data, "skills", L(<<>>))) # NoExc
  THEN ItemsExc(Get(resume_data, "skills", L(<<>>)))
  ELSE IF JoinExc(TextsOf(resume_data, "skills", "name")) # NoExc
  THEN "TypeError"
  ELSE IF JoinExc(ResumeTextParts(resume_data)) # NoExc THEN "TypeError"
  ELSE JobWordsExc(job_description)

\* resume_words of _analyze_keywords
ResumeWords(resume_data) ==
  LET parts == ResumeTextParts(resume_data)
      all_text == JoinWith(<<" ">>, [i \in 1..Len(parts) |-> parts[i].v])
  IN  FindWords(Lower(all_text))

\* job_words
\* JobWords that also finds the phrase 'machine learning'
JobWordsWithPhrase(job_description) ==
  IF Truthy(job_description)
  THEN FindWords(Lower(job_description.v))
         \cup (IF Contains(Lower(job_description.v), Chars["machine learning"])
               THEN {"machine learning"} ELSE {})
  ELSE {}

JobWords(job_description) ==
  IF Truthy(job_description) THEN FindWords(Lower(job_description.v)) ELSE {}

\* MatchRate returning the fraction instead of the percentage
MatchRateFraction(matched, job_keywords) ==
  IF job_keywords # {}
  THEN FloatDiv(Cardinality(matched), Cardinality(job_keywords))
  ELSE I(0)

\* match_rate
MatchRate(matched, job_keywords) ==
  IF job_keywords # {}
  THEN FloatMul(FloatDiv(Cardinality(matched), Cardinality(job_keywords)), 100)
  ELSE I(0)

\* the possible return values of _analyze_keywords
_analyze_keywords(resume_data, job_description) ==
  LET resume_words == ResumeWords(resume_data)
      job_words == JobWords(job_description)
      all_keywords == AllKeywords
      matchedSet == (resume_words \cap job_words) \cap all_keywords
      missingSet == (job_words \ resume_words) \cap all_keywords
      match_rate == MatchRate(matchedSet, job_words \cap all_keywords)
  IN  {[matched |-> matched,
        missing |-> missing,
        match_rate |-> match_rate,
        total_matched |-> Len(matched),
        total_missing |-> Len(missing)] :
         matched \in ListOf(matchedSet), missing \in ListOf(missingSet)}

(***************************************************************************)
(* extract_keywords.                                                       *)
(***************************************************************************)
\* the pieces of all_text of extract_keywords
ExtractTextParts(resume_data) ==
  <<Get(resume_data, "summary", S("")),
    Get(Get(resume_data, "content", EmptyDict), "summary", S("")),
    [t |-> "str",
     v |-> JoinWith(<<" ">>,
             [i \in 1..Len(TextsOf(resume_data, "experiences", "description")) |->
                TextsOf(resume_data, "experiences", "description")[i].v])],
    [t |-> "str",
     v |-> JoinWith(<<" ">>,
             [i \in 1..Len(TextsOf(resume_data, "education", "description")) |->
                TextsOf(resume_data, "education", "description")[i].v])],
    [t |-> "str",
     v |-> JoinWith(<<" ">>,
             [i \in 1..Len(TextsOf(resume_data, "skills", "name")) |->
                TextsOf(resume_data, "skills", "name")[i].v])]>>

\* the exception that ends the try block of extract_keywords
extract_keywords_exc(resume_data, job_description) ==
  IF resume_data.t # "dict" THEN "AttributeError"
  ELSE IF ContentExc(resume_data) # NoExc THEN ContentExc(resume_data)
  ELSE IF ItemsExc(Get(resume_data, "experiences", L(<<>>))) # NoExc
  THEN ItemsExc(Get(resume_data, "experiences", L(<<>>)))
  ELSE IF JoinExc(TextsOf(resume_data, "experiences", "description")) # NoExc
  THEN "TypeError"
  ELSE IF ItemsExc(Get(resume_data, "education", L(<<>>))) # NoExc
  THEN ItemsExc(Get(resume_data, "education", L(<<>>)))
  ELSE IF JoinExc(TextsOf(resume_data, "education", "description")) # NoExc
  THEN "TypeError"
  ELSE IF ItemsExc(Get(resume_data, "skills", L(<<>>))) # NoExc
  THEN ItemsExc(Get(resume_data, "skills", L(<<>>)))
  ELSE IF JoinExc(TextsOf(resume_data, "skills", "name")) # NoExc
  THEN "TypeError"
  ELSE IF JoinExc(ExtractTextParts(resume_data)) # NoExc THEN "TypeError"
  ELSE JobWordsExc(job_description)

\* resume_words of extract_keywords
ExtractResumeWords(resume_data) ==
  LET parts == ExtractTextParts(resume_data)
      all_text == JoinWith(<<" ">>, [i \in 1..Len(parts) |-> parts[i].v])
  IN  FindWords(Lower(all_text))

\* the possible return values of extract_keywords
extract_keywords(resume_data, job_description) ==
  LET exc == extract_keywords_exc(resume_data, job_description)
  IN  IF exc # NoExc THEN {[success |-> FALSE, error |-> exc]}
      ELSE LET resume_words == ExtractResumeWords(resume_data)
               job_words == JobWords(job_description)
               all_keywords == AllKeywords
           IN  {[success |-> TRUE,
                 resume_keywords |-> rk,
                 job_keywords |-> jk,
                 matched_keywords |-> matched,
                 missing_keywords |-> missing] :
                  rk \in ListOf(resume_words \cap all_keywords),
                  jk \in ListOf(job_words \cap all_keywords),
                  matched \in ListOf((resume_words \cap job_words) \cap all_keywords),
                  missing \in ListOf((job_words \ resume_words) \cap all_keywords)}

(***************************************************************************)
(* Suggestion generator.                                                   *)
(***************************************************************************)
Suggestion(type, message, priority) ==
  [type |-> type, message |-> message, priority |-> priority]

RECURSIVE JoinStrings(_, _)
\* sep.join(parts) for a sequence of strings
JoinStrings(sep, parts) ==
  IF parts = <<>> THEN ""
  ELSE IF Len(parts) = 1 THEN parts[1]
  ELSE parts[1] \o sep \o JoinStrings(sep, Tail(parts))

\* _generate_suggestions with the keyword suggestion appended last
_generate_suggestions_reordered(scores, keyword_analysis) ==
  LET top_missing ==
        SubSeq(keyword_analysis.missing, 1, Min(5, Len(keyword_analysis.missing)))
  IN  (IF scores.contact_info < 75
       THEN <<Suggestion("contact_info", "Add missing contact information", "high")>>
       ELSE <<>>)
      \o (IF scores.summary < 50
          THEN <<Suggestion("summary", "Add or improve your professional summary",
                            "high")>>
          ELSE <<>>)
      \o (IF scores.experience < 50
          THEN <<Suggestion("experience",
                            "Add more work experience with descriptions", "high")>>
          ELSE <<>>)
      \o (IF scores.skills < 50
          THEN <<Suggestion("skills", "Add more skills with proficiency levels",
                            "medium")>>
          ELSE <<>>)
      \o <<Suggestion("content",
                      "Use strong action verbs like \"achieved\", \"led\", \"developed\"",
                      "low")>>
      \o <<Suggestion("content",
                      "Quantify achievements with numbers and percentages",
                      "medium")>>
      \o (IF keyword_analysis.missing # <<>>
          THEN <<Suggestion("keywords",
                            "Consider adding these keywords: "
                              \o JoinStrings(", ", top_missing),
                            "medium")>>
          ELSE <<>>)

\* _generate_suggestions listing every missing keyword
_generate_suggestions_all_missing(scores, keyword_analysis) ==
  LET top_missing ==
        keyword_analysis.missing
  IN  (IF scores.contact_info < 75
       THEN <<Suggestion("contact_info", "Add missing contact information", "high")>>
       ELSE <<>>)
      \o (IF scores.summary < 50
          THEN <<Suggestion("summary", "Add or improve your professional summary",
                            "high")>>
          ELSE <<>>)
      \o (IF scores.experience < 50
          THEN <<Suggestion("experience",
                            "Add more work experience with descriptions", "high")>>
          ELSE <<>>)
      \o (IF scores.skills < 50
          THEN <<Suggestion("skills", "Add more skills with proficiency levels",
                            "medium")>>
          ELSE <<>>)
      \o (IF keyword_analysis.missing # <<>>
          THEN <<Suggestion("keywords",
                            "Consider adding these keywords: "
                              \o JoinStrings(", ", top_missing),
                            "medium")>>
          ELSE <<>>)
      \o <<Suggestion("content",
                      "Use strong action verbs like \"achieved\", \"led\", \"developed\"",
                      "low")>>
      \o <<Suggestion("content",
                      "Quantify achievements with numbers and percentages",
                      "medium")>>

_generate_suggestions(scores, keyword_analysis) ==
  LET top_missing ==
        SubSeq(keyword_analysis.missing, 1, Min(5, Len(keyword_analysis.missing)))
  IN  (IF scores.contact_info < 75
       THEN <<Suggestion("contact_info", "Add missing contact information", "high")>>
       ELSE <<>>)
      \o (IF scores.summary < 50
          THEN <<Suggestion("summary", "Add or improve your professional summary",
                            "high")>>
          ELSE <<>>)
      \o (IF scores.experience < 50
          THEN <<Suggestion("experience",
                            "Add more work experience with descriptions", "high")>>
          ELSE <<>>)
      \o (IF scores.skills < 50
          THEN <<Suggestion("skills", "Add more skills with proficiency levels",
                            "medium")>>
          ELSE <<>>)
      \o (IF keyword_analysis.missing # <<>>
          THEN <<Suggestion("keywords",
                            "Consider adding these keywords: "
                              \o JoinStrings(", ", top_missing),
                            "medium")>>
          ELSE <<>>)
      \o <<Suggestion("content",
                      "Use strong action verbs like \"achieved\", \"led\", \"developed\"",
                      "low")>>
      \o <<Suggestion("content",
                      "Quantify achievements with numbers and percentages",
                      "medium")>>

(***************************************************************************)
(* Formatting issue checker.                                               *)
(***************************************************************************)
\* _check_formatting_issues with the short limit at 500 characters inclusive
_check_formatting_issues_inclusive(resume_data) ==
  LET text == Repr(resume_data)
      lower == Lower(text)
      required_sections == <<"summary", "experience", "education", "skills">>
      section_chars == <<Chars["summary"], Chars["experience"],
                         Chars["education"], Chars["skills"]>>
      absent == SelectSeq(<<1, 2, 3, 4>>,
                          LAMBDA i : ~Contains(lower, section_chars[i]))
      missing_sections == [j \in 1..Len(absent) |-> required_sections[absent[j]]]
  IN  (IF Len(text) <= 500
       THEN <<[type |-> "content_length",
               message |-> "Resume content appears too short",
               severity |-> "warning"]>>
       ELSE IF Len(text) > 10000
       THEN <<[type |-> "content_length",
               message |-> "Resume content may be too long",
               severity |-> "info"]>>
       ELSE <<>>)
      \o (IF missing_sections # <<>>
          THEN <<[type |-> "missing_sections",
                  message |-> "Missing sections: "
                                \o JoinStrings(", ", missing_sections),
                  severity |-> "warning"]>>
          ELSE <<>>)

\* _check_formatting_issues with one issue for each missing section
_check_formatting_issues_each(resume_data) ==
  LET text == Repr(resume_data)
      lower == Lower(text)
      required_sections == <<"summary", "experience", "education", "skills">>
      section_chars == <<Chars["summary"], Chars["experience"],
                         Chars["education"], Chars["skills"]>>
      absent == SelectSeq(<<1, 2, 3, 4>>,
                          LAMBDA i : ~Contains(lower, section_chars[i]))
      missing_sections == [j \in 1..Len(absent) |-> required_sections[absent[j]]]
  IN  (IF Len(text) < 500
       THEN <<[type |-> "content_length",
               message |-> "Resume content appears too short",
               severity |-> "warning"]>>
       ELSE IF Len(text) > 10000
       THEN <<[type |-> "content_length",
               message |-> "Resume content may be too long",
               severity |-> "info"]>>
       ELSE <<>>)
      \o [j \in 1..Len(missing_sections) |->
            [type |-> "missing_sections",
             message |-> "Missing sections: " \o missing_sections[j],
             severity |-> "warning"]]

_check_formatting_issues(resume_data) ==
  LET text == Repr(resume_data)
      lower == Lower(text)
      required_sections == <<"summary", "experience", "education", "skills">>
      section_chars == <<Chars["summary"], Chars["experience"],
                         Chars["education"], Chars["skills"]>>
      absent == SelectSeq(<<1, 2, 3, 4>>,
                          LAMBDA i : ~Contains(lower, section_chars[i]))
      missing_sections == [j \in 1..Len(absent) |-> required_sections[absent[j]]]
  IN  (IF Len(text) < 500
       THEN <<[type |-> "content_length",
               message |-> "Resume content appears too short",
               severity |-> "warning"]>>
       ELSE IF Len(text) > 10000
       THEN <<[type |-> "content_length",
               message |-> "Resume content may be too long",
               severity |-> "info"]>>
       ELSE <<>>)
      \o (IF missing_sections # <<>>
          THEN <<[type |-> "missing_sections",
                  message |-> "Missing sections: "
                                \o JoinStrings(", ", missing_sections),
                  severity |-> "warning"]>>
          ELSE <<>>)

(***************************************************************************)
(* ATSScorer.analyze_resume_data and analyze_resume.                       *)
(***************************************************************************)
RECURSIVE SumValues(_, _)
\* sum(scores.values()) over the keys ks of scores
SumValues(scores, ks) ==
  IF ks = {} THEN 0
  ELSE LET k == CHOOSE x \in ks : TRUE
       IN  scores[k] + SumValues(scores, ks \ {k})

\* what the except branch returns: str(e) is kept as the exception class
Failure(exc) == [success |-> FALSE, error |-> exc]

\* the section scores
Scores(resume_data) ==
  [contact_info |-> _check_contact_info(resume_data),
   summary      |-> _check_summary(resume_data),
   experience   |-> _check_experience(resume_data),
   education    |-> _check_education(resume_data),
   skills       |-> _check_skills(resume_data),
   formatting   |-> _check_formatting(resume_data)]

\* OverallScore rounding to the nearest integer instead of flooring
OverallScoreRounded(scores) ==
  (2 * SumValues(scores, DOMAIN scores) + Cardinality(DOMAIN scores))
    \div (2 * Cardinality(DOMAIN scores))

\* overall_score = sum(scores.values()) // len(scores)
OverallScore(scores) ==
  SumValues(scores, DOMAIN scores) \div Cardinality(DOMAIN scores)

\* the report assembled for one outcome of the keyword analysis
Report(scores, keyword_analysis, formatting_issues) ==
  [success |-> TRUE,
   overall_score |-> OverallScore(scores),
   section_scores |-> scores,
   keywords |-> keyword_analysis.matched,
   missing_keywords |-> keyword_analysis.missing,
   suggestions |-> _generate_suggestions(scores, keyword_analysis),
   formatting_issues |-> formatting_issues,
   keyword_analysis |-> keyword_analysis]

\* the exception that ends the try block, in the order of evaluation
AnalysisExc(resume_data, job_description) ==
  IF resume_data.t # "dict" THEN "AttributeError"
  ELSE
  FirstExc(<<_check_summary_exc(resume_data),
             _check_experience_exc(resume_data),
             _check_education_exc(resume_data),
             _check_skills_exc(resume_data),
             _analyze_keywords_exc(resume_data, job_description)>>)

\* the possible return values of analyze_resume_data
analyze_resume_data(resume_data, job_description) ==
  LET exc == AnalysisExc(resume_data, job_description)
  IN  IF exc # NoExc THEN {Failure(exc)}
      ELSE LET scores == Scores(resume_data)
               formatting_issues == _check_formatting_issues(resume_data)
           IN  {Report(scores, ka, formatting_issues) :
                  ka \in _analyze_keywords(resume_data, job_description)}

(***************************************************************************)
(* models/resume.py: to_dict of the rows.                                  *)
(***************************************************************************)
ExperienceKeys ==
  {"id", "resume_id", "company", "position", "location", "start_date",
   "end_date", "is_current", "description", "ai_enhanced", "order"}

EducationKeys ==
  {"id", "resume_id", "institution", "degree", "field_of_study", "location",
   "start_date", "end_date", "gpa", "description", "order"}

SkillKeys ==
  {"id", "resume_id", "name", "category", "level", "years_of_experience",
   "order"}

ResumeColumnKeys ==
  {"id", "user_id", "title", "slug", "template_id", "template_name",
   "full_name", "email", "phone", "address", "city", "country", "linkedin",
   "github", "portfolio", "website", "avatar_url", "summary", "is_public",
   "share_token", "view_count", "pdf_downloads", "docx_downloads",
   "png_downloads", "ats_score", "is_complete", "created_at", "updated_at"}

\* Experience.to_dict, Education.to_dict, Skill.to_dict: the listed columns
EntryToDict(row, keys) == D([k \in keys |-> row[k]])

\* [x.to_dict() for x in rows]
EntriesToDict(rows, keys) == L([i \in 1..Len(rows) |-> EntryToDict(rows[i], keys)])

\* Resume.to_dict(include_content=True); a datetime column holds its
\* isoformat() text
ResumeToDict(row) ==
  D([k \in ResumeColumnKeys \cup {"content", "experiences", "education",
                                  "skills", "projects", "certifications"} |->
       CASE k = "content" -> IF Truthy(row.content) THEN row.content ELSE EmptyDict
         [] k = "experiences" -> EntriesToDict(row.experiences, ExperienceKeys)
         [] k = "education" -> EntriesToDict(row.education, EducationKeys)
         [] k = "skills" -> EntriesToDict(row.skills, SkillKeys)
         [] k = "projects" -> L(<<>>)
         [] k = "certifications" -> L(<<>>)
         [] OTHER -> row[k]])

\* the possible return values of analyze_resume (to_dict does not raise)
analyze_resume(row, job_description) ==
  analyze_resume_data(ResumeToDict(row), job_description)

(***************************************************************************)
(* routes/ai_tools.py: POST /ats-check.                                    *)
(***************************************************************************)
\* APIResponse.success(data, message)
APISuccess(data, message) ==
  [status |-> 200, body |-> [success |-> TRUE, data |-> data, message |-> message]]

\* APIResponse.error(message, status)
APIError(message, status) ==
  [status |-> status, body |-> [success |-> FALSE, error |-> message]]

NoCall == [made |-> FALSE]

NoResponse == [status |-> 0]

\* an invocation of analyze_resume_data with its return value
Invocation(resume_data, job_description, ret) ==
  [made |-> TRUE, resume_data |-> resume_data,
   job_description |-> job_description, ret |-> ret]

\* the response of check_ats for a scorer result
ResultResponse(ret) ==
  IF ret.success
  THEN APISuccess([overall_score |-> ret.overall_score,
                   section_scores |-> ret.section_scores,
                   missing_keywords |-> ret.missing_keywords,
                   suggestions |-> ret.suggestions,
                   formatting_issues |-> ret.formatting_issues,
                   keyword_analysis |-> ret.keyword_analysis],
                  "ATS analysis completed")
  ELSE APIError(ret.error, 400)

JobDescriptionOf(data) == Get(data, "job_description", S(""))

\* if not data: return APIResponse.error('No data provided', 400)
CheckAtsNoData ==
  /\ endpoint = "ats-check"
  /\ ~Truthy(request)
  /\ response' = APIError("No data provided", 400)
  /\ UNCHANGED <<keywords, resume, request, call, endpoint, extraction,
               running, frames>>

\* Resume.query.filter_by(id=resume_id, user_id=user_id).first() finds nothing
CheckAtsNotFound ==
  /\ endpoint = "ats-check"
  /\ Truthy(request)
  /\ Truthy(Get(request, "resume_id", None))
  /\ Get(request, "resume_id", None) # resume.id
  /\ response' = APIError("Resume not found", 404)
  /\ UNCHANGED <<keywords, resume, request, call, endpoint, extraction,
               running, frames>>

\* the branch with a resume_id: analyze_resume on the stored resume, then the
\* overall score and the matched keywords are written to the row
CheckAtsStored ==
  /\ endpoint = "ats-check"
  /\ Truthy(request)
  /\ Truthy(Get(request, "resume_id", None))
  /\ Get(request, "resume_id", None) = resume.id
  /\ \E ret \in analyze_resume(resume, JobDescriptionOf(request)) :
       /\ call' = Invocation(ResumeToDict(resume), JobDescriptionOf(request), ret)
       /\ resume' = IF ret.success
                    THEN [resume EXCEPT !.ats_score = I(ret.overall_score),
                                        !.ats_keywords = L(ret.keywords)]
                    ELSE resume
       /\ response' = ResultResponse(ret)
  /\ UNCHANGED <<keywords, request, endpoint, extraction, running, frames>>

\* CheckAtsData with a matcher that collects all_keywords by extending the
\* technical list of the dictionary in place
CheckAtsDataExtending ==
  /\ endpoint = "ats-check"
  /\ Truthy(request)
  /\ ~Truthy(Get(request, "resume_id", None))
  /\ LET resume_data == Get(request, "resume_data", EmptyDict)
     IN  \E ret \in analyze_resume_data(resume_data, JobDescriptionOf(request)) :
           /\ call' = Invocation(resume_data, JobDescriptionOf(request), ret)
           /\ response' = ResultResponse(ret)
           /\ keywords' = IF ret.success
                          THEN [keywords EXCEPT !["technical"] =
                                  @ \o keywords["soft_skills"]
                                    \o keywords["action_verbs"]]
                          ELSE keywords
  /\ UNCHANGED <<resume, request, endpoint, extraction, running, frames>>

\* the branch without a resume_id: analyze_resume_data on the posted data
CheckAtsData ==
  /\ endpoint = "ats-check"
  /\ Truthy(request)
  /\ ~Truthy(Get(request, "resume_id", None))
  /\ LET resume_data == Get(request, "resume_data", EmptyDict)
     IN  \E ret \in analyze_resume_data(resume_data, JobDescriptionOf(request)) :
           /\ call' = Invocation(resume_data, JobDescriptionOf(request), ret)
           /\ response' = ResultResponse(ret)
  /\ UNCHANGED <<keywords, resume, request, endpoint, extraction, running,
               frames>>

(***************************************************************************)
(* routes/ai_tools.py: POST /keywords.                                     *)
(***************************************************************************)
\* APIResponse.success(data)
APISuccessData(data) ==
  [status |-> 200, body |-> [success |-> TRUE, data |-> data]]

\* the response of the keywords route for a scorer result
KeywordsResponse(ret) ==
  IF ret.success
  THEN APISuccessData([resume_keywords |-> ret.resume_keywords,
                       job_keywords |-> ret.job_keywords,
                       matched_keywords |-> ret.matched_keywords,
                       missing_keywords |-> ret.missing_keywords])
  ELSE APIError(ret.error, 400)

\* if not data: return APIResponse.error('No data provided', 400)
ExtractKeywordsNoData ==
  /\ endpoint = "keywords"
  /\ ~Truthy(request)
  /\ response' = APIError("No data provided", 400)
  /\ UNCHANGED <<keywords, resume, request, call, endpoint, extraction,
               running, frames>>

\* extract_keywords on the posted data
ExtractKeywordsData ==
  /\ endpoint = "keywords"
  /\ Truthy(request)
  /\ LET resume_data == Get(request, "resume_data", EmptyDict)
     IN  \E ret \in extract_keywords(resume_data, JobDescriptionOf(request)) :
           /\ extraction' = Invocation(resume_data, JobDescriptionOf(request), ret)
           /\ response' = KeywordsResponse(ret)
  /\ UNCHANGED <<keywords, resume, request, call, endpoint, running, frames>>

(***************************************************************************)
(* The explored resumes and requests.                                      *)
(***************************************************************************)
Timestamp == S("2024-01-01T00:00:00")

ExperienceRow(i, description) ==
  [id |-> I(i), resume_id |-> I(1), company |-> S("Acme"),
   position |-> S("Engineer"), location |-> None, start_date |-> S("2020"),
   end_date |-> S("Present"), is_current |-> B(FALSE),
   description |-> description, ai_enhanced |-> B(FALSE), order |-> I(i - 1),
   created_at |-> Timestamp, updated_at |-> Timestamp]

EducationRow(i, e) ==
  [id |-> I(i), resume_id |-> I(1), institution |-> e.institution,
   degree |-> e.degree, field_of_study |-> None, location |-> None,
   start_date |-> None, end_date |-> None, gpa |-> None,
   description |-> e.description, order |-> I(i - 1),
   created_at |-> Timestamp, updated_at |-> Timestamp]

SkillRow(i, s) ==
  [id |-> I(i), resume_id |-> I(1), name |-> s.name, category |-> s.category,
   level |-> s.level, years_of_experience |-> None, order |-> I(i - 1),
   created_at |-> Timestamp]

ResumeRow(contact, summary, experiences, education, skills) ==
  [id |-> I(1), user_id |-> I(1), title |-> S("My Resume"),
   slug |-> S("my-resume-1a2b3c4d"), template_id |-> None,
   template_name |-> S("modern"), full_name |-> contact.full_name,
   email |-> contact.email, phone |-> contact.phone, address |-> None,
   city |-> contact.city, country |-> contact.country, linkedin |-> None,
   github |-> None, portfolio |-> None, website |-> None,
   avatar_url |-> None, summary |-> summary, content |-> None,
   ats_score |-> I(0), ats_keywords |-> None, is_public |-> B(FALSE),
   share_token |-> S("0f1e2d3c4b5a"), view_count |-> I(0),
   pdf_downloads |-> I(0), docx_downloads |-> I(0), png_downloads |-> I(0),
   is_complete |-> B(FALSE), created_at |-> Timestamp, updated_at |-> Timestamp,
   experiences |-> [i \in 1..Len(experiences) |-> ExperienceRow(i, experiences[i])],
   education |-> [i \in 1..Len(education) |-> EducationRow(i, education[i])],
   skills |-> [i \in 1..Len(skills) |-> SkillRow(i, skills[i])]]

ContactSamples ==
  {[email |-> None, phone |-> None, city |-> None, country |-> None,
    full_name |-> None],
   [email |-> S("a@b.com"), phone |-> S("555-1234"), city |-> None,
    country |-> S("USA"), full_name |-> None],
   [email |-> S("not-an-email"), phone |-> None, city |-> S("NYC"),
    country |-> S("USA"), full_name |-> None],
   [email |-> S("a@b.com"), phone |-> S("555-1234"), city |-> S("NYC"),
    country |-> None, full_name |-> S("Jane Doe")]}

SummarySamples ==
  {None, S("Led SQL migrations."), S("Experienced python developer")}

DescriptionSamples ==
  {None, S("Increased sales 50% with Java")}

EducationSamples ==
  {[institution |-> None, degree |-> None, description |-> None],
   [institution |-> S("MIT"), degree |-> S("BSc"),
    description |-> S("Studied Python and statistics")]}

SkillSamples ==
  {[name |-> None, category |-> None, level |-> None],
   [name |-> S("Tableau"), category |-> S("technical"), level |-> S("expert")]}

JobDescriptionSamples ==
  {S(""), S("Python, Java and SQL."), S("Teamwork; led 2 teams")}

\* the sequences over a set of length at most n
SeqsUpTo(set, n) == UNION {[1..k -> set] : k \in 0..n}

FullContact == CHOOSE c \in ContactSamples : c.full_name # None

\* skill lists around the thresholds len(skills) >= 5 and len(skills) >= 10
LongSkillLists ==
  {[i \in 1..n |-> k] : n \in {4, 5, 9, 10}, k \in SkillSamples}

\* a summary of n characters made of a prefix, a filler and a last character
LongSummary(prefix, n, last) ==
  [t |-> "str",
   v |-> prefix
           \o [i \in 1..(n - Len(prefix) - 1) |-> IF i % 2 = 1 THEN "x" ELSE " "]
           \o <<last>>]

\* summaries around the thresholds 100 <= len(summary) <= 500
LongSummaries ==
  {LongSummary(prefix, n, last) :
     prefix \in {Chars["Led teams "], Chars["Ran teams "]},
     n \in {99, 100, 500, 501}, last \in {".", "x"}}

\* a resume whose sections all reach their highest score
BestResume ==
  ResumeRow(FullContact, LongSummary(Chars["Led teams "], 100, "."),
            <<S("Increased sales 50% with Java"), S("Increased sales 50% with Java")>>,
            <<[institution |-> S("MIT"), degree |-> S("BSc"),
               description |-> S("Studied Python and statistics")]>>,
            [i \in 1..10 |->
               [name |-> S("Python"), category |-> S("technical"),
                level |-> S("expert")]])

\* str(to_dict()) of a resume with a summary of n characters and no entries
\* has 687 + n characters while ats_score has one digit
BoundarySummaryLen == 9313

\* a resume whose stringified data is exactly 10000 characters long
BoundaryResume ==
  ResumeRow(FullContact, LongSummary(Chars["Led teams "], BoundarySummaryLen, "."),
            <<>>, <<>>, <<>>)

\* the resumes: every contact with every summary; a complete contact with
\* every summary and the bounded lists of entries of two of the three kinds; resumes with two
\* experiences, one education and a long list of skills; resumes with a long
\* summary; and resumes with two education entries
StoredResumes ==
  {ResumeRow(c, s, <<>>, <<>>, <<>>) :
     c \in ContactSamples, s \in SummarySamples}
    \cup {ResumeRow(FullContact, s, x, e, <<>>) :
            s \in SummarySamples,
            x \in SeqsUpTo(DescriptionSamples, MaxExp),
            e \in SeqsUpTo(EducationSamples, MaxEdu)}
    \cup {ResumeRow(FullContact, s, x, <<>>, k) :
            s \in SummarySamples,
            x \in SeqsUpTo(DescriptionSamples, MaxExp),
            k \in SeqsUpTo(SkillSamples, MaxSkills)}
    \cup {ResumeRow(FullContact, s, <<>>, e, k) :
            s \in SummarySamples,
            e \in SeqsUpTo(EducationSamples, MaxEdu),
            k \in SeqsUpTo(SkillSamples, MaxSkills)}
    \cup {ResumeRow(FullContact, S("Led SQL migrations."), <<x, x>>, <<e>>, k) :
            x \in DescriptionSamples, e \in EducationSamples,
            k \in LongSkillLists}
    \cup {ResumeRow(FullContact, s, <<>>, <<>>, <<>>) : s \in LongSummaries}
    \cup {ResumeRow(FullContact, S("Led SQL migrations."), <<>>, <<e1, e2>>, <<>>) :
            e1 \in EducationSamples, e2 \in EducationSamples}
    \cup {BestResume, BoundaryResume}

RECURSIVE DropNulls(_)
\* the JSON a client posts for a resume: the fields without a value are left out
DropNulls(x) ==
  CASE x.t = "dict" ->
         D([k \in {j \in DOMAIN x.v : x.v[j].t # "none"} |-> DropNulls(x.v[k])])
    [] x.t = "list" -> L([i \in 1..Len(x.v) |-> DropNulls(x.v[i])])
    [] OTHER -> x

\* a posted resume with one field replaced
With(resume_data, key, value) ==
  D([k \in DOMAIN resume_data.v \cup {key} |->
       IF k = key THEN value ELSE resume_data.v[k]])

\* values that are not a list of entries
MalformedSamples ==
  {None, S(""), S("abc"), I(0), I(5), B(TRUE), EmptyDict,
   D([name |-> S("SQL")]), L(<<S("SQL")>>)}

BaseData ==
  DropNulls(ResumeToDict(
    ResumeRow(FullContact, S("Led SQL migrations."), <<>>, <<>>, <<>>)))

MalformedData ==
  {With(BaseData, key, x) :
     key \in {"experiences", "education", "skills", "content"},
     x \in MalformedSamples}

PostedData ==
  {DropNulls(ResumeToDict(r)) : r \in StoredResumes} \cup MalformedData

\* posted data that mentions a table and nothing else
TableOnlyData == D([title |-> S("Tableau")])

\* posted data whose stringified form has 15 + n characters
ShortData(n) == D([summary |-> LongSummary(Chars["Led teams "], n, ".")])

\* a job description with six words of the dictionary
ManyKeywordsJob == S("Java, HTML, CSS, React, AWS and Docker")

\* a resume and a job description that both hold a phrase of the dictionary
PhraseData == With(BaseData, "summary", S("Led machine learning projects."))

PhraseJob == S("Led machine learning with Python")

\* requests for single cases of the analysis
SpecialRequests ==
  {D([resume_data |-> TableOnlyData]),
   D([resume_data |-> PhraseData, job_description |-> PhraseJob])}
    \cup {D([resume_data |-> ShortData(n)]) : n \in {484, 485}}

DefaultResume == ResumeRow(CHOOSE c \in ContactSamples : c.email = None,
                           None, <<>>, <<>>, <<>>)

\* the resume data posted to the keywords route
ExtractionData ==
  {DropNulls(ResumeToDict(ResumeRow(FullContact, s, <<>>, e, <<>>))) :
     s \in SummarySamples, e \in SeqsUpTo(EducationSamples, 1)}
    \cup {ResumeToDict(DefaultResume), L(<<>>)}

(***************************************************************************)
(* Analyses running side by side.  Every invocation of analyze_resume_data *)
(* has its own frame of local variables; `running' holds, per analysis,    *)
(* its position in the body, its arguments and its return value.           *)
(***************************************************************************)
Workers == {1, 2}

Unset == [t |-> "unset"]

NotRunning ==
  [w \in Workers |->
     [pc |-> "idle", resume_data |-> EmptyDict, job_description |-> S(""),
      result |-> Unset]]

NoFrames ==
  [f \in Workers |->
     [scores |-> Unset, overall_score |-> Unset, keyword_analysis |-> Unset,
      suggestions |-> Unset, formatting_issues |-> Unset]]

Init ==
  /\ keywords = ATSScorerInit
  /\ call = NoCall
  /\ response = NoResponse
  /\ extraction = NoCall
  /\ running = NotRunning
  /\ frames = NoFrames
  /\ \/ /\ endpoint = "ats-check"
        /\ resume \in StoredResumes
        /\ request \in {D([resume_id |-> I(1), job_description |-> j]) :
                          j \in JobDescriptionSamples}
     \/ /\ endpoint = "ats-check"
        /\ resume = DefaultResume
        /\ request \in {D([resume_data |-> d, job_description |-> j]) :
                          d \in PostedData, j \in JobDescriptionSamples}
     \/ /\ endpoint = "ats-check"
        /\ resume = DefaultResume
        /\ request \in {EmptyDict, D([resume_id |-> I(2)]),
                        D([resume_data |-> L(<<>>)]),
                        D([resume_data |-> BaseData])} \cup SpecialRequests
     \/ /\ endpoint = "keywords"
        /\ resume = DefaultResume
        /\ request \in {EmptyDict, D([job_description |-> S("Python, Java and SQL.")])}
                        \cup {D([resume_data |-> d, job_description |-> j]) :
                                d \in ExtractionData, j \in JobDescriptionSamples}
                        \cup {D([resume_data |-> PhraseData,
                                 job_description |-> PhraseJob])}

Next ==
  \/ CheckAtsNoData
  \/ CheckAtsNotFound
  \/ CheckAtsStored
  \/ CheckAtsData
  \/ ExtractKeywordsNoData
  \/ ExtractKeywordsData

Spec == Init /\ [][Next]_vars

\* the local variables kept in one place shared by all the analyses
FrameShared(w) == 1

\* the frame of local variables of an analysis: one per invocation
Frame(w) == w

\* the report assembled from the local variables of a frame
ReportOf(frame) ==
  [success |-> TRUE,
   overall_score |-> frame.overall_score,
   section_scores |-> frame.scores,
   keywords |-> frame.keyword_analysis.matched,
   missing_keywords |-> frame.keyword_analysis.missing,
   suggestions |-> frame.suggestions,
   formatting_issues |-> frame.formatting_issues,
   keyword_analysis |-> frame.keyword_analysis]

\* the exception raised while the scores are computed
ScoresExc(resume_data) ==
  IF resume_data.t # "dict" THEN "AttributeError"
  ELSE FirstExc(<<_check_summary_exc(resume_data),
                  _check_experience_exc(resume_data),
                  _check_education_exc(resume_data),
                  _check_skills_exc(resume_data)>>)

\* the except branch: the analysis returns the failure result
Raise(w, exc) ==
  /\ running' = [running EXCEPT ![w].pc = "done", ![w].result = Failure(exc)]
  /\ UNCHANGED frames

Store(w, field, value, pc) ==
  /\ frames' = [frames EXCEPT ![Frame(w)][field] = value]
  /\ running' = [running EXCEPT ![w].pc = pc]

\* scores = {...}
ComputeScores(w) ==
  /\ running[w].pc = "scores"
  /\ LET exc == ScoresExc(running[w].resume_data)
     IN  IF exc # NoExc THEN Raise(w, exc)
         ELSE Store(w, "scores", Scores(running[w].resume_data), "overall")
  /\ UNCHANGED <<keywords, resume, request, call, response, endpoint, extraction>>

\* overall_score = sum(scores.values()) // len(scores)
ComputeOverall(w) ==
  /\ running[w].pc = "overall"
  /\ Store(w, "overall_score", OverallScore(frames[Frame(w)].scores), "keywords")
  /\ UNCHANGED <<keywords, resume, request, call, response, endpoint, extraction>>

\* keyword_analysis = self._analyze_keywords(resume_data, job_description)
AnalyzeKeywords(w) ==
  /\ running[w].pc = "keywords"
  /\ LET exc == _analyze_keywords_exc(running[w].resume_data,
                                      running[w].job_description)
     IN  IF exc # NoExc THEN Raise(w, exc)
         ELSE \E ka \in _analyze_keywords(running[w].resume_data,
                                          running[w].job_description) :
                Store(w, "keyword_analysis", ka, "suggestions")
  /\ UNCHANGED <<keywords, resume, request, call, response, endpoint, extraction>>

\* suggestions = self._generate_suggestions(scores, keyword_analysis)
GenerateSuggestions(w) ==
  /\ running[w].pc = "suggestions"
  /\ Store(w, "suggestions",
           _generate_suggestions(frames[Frame(w)].scores,
                                 frames[Frame(w)].keyword_analysis),
           "issues")
  /\ UNCHANGED <<keywords, resume, request, call, response, endpoint, extraction>>

\* formatting_issues = self._check_formatting_issues(resume_data)
CheckFormattingIssues(w) ==
  /\ running[w].pc = "issues"
  /\ Store(w, "formatting_issues",
           _check_formatting_issues(running[w].resume_data), "return")
  /\ UNCHANGED <<keywords, resume, request, call, response, endpoint, extraction>>

\* return {...}
Return(w) ==
  /\ running[w].pc = "return"
  /\ running' = [running EXCEPT ![w].pc = "done",
                                ![w].result = ReportOf(frames[Frame(w)])]
  /\ UNCHANGED <<keywords, resume, request, call, response, endpoint, extraction,
                 frames>>

\* the arguments of the analyses that run side by side
ConcurrentInputs ==
  {[resume_data |-> BaseData, job_description |-> S("Python, Java and SQL.")],
   [resume_data |-> EmptyDict, job_description |-> S("Teamwork; led 2 teams")],
   [resume_data |-> D([summary |-> None]), job_description |-> S("")],
   [resume_data |-> D([experiences |-> I(5)]), job_description |-> S("")]}

InitConcurrent ==
  /\ keywords = ATSScorerInit
  /\ resume = DefaultResume
  /\ request = EmptyDict
  /\ call = NoCall
  /\ response = NoResponse
  /\ endpoint = "ats-check"
  /\ extraction = NoCall
  /\ frames = NoFrames
  /\ running \in [Workers -> {[pc |-> "scores", resume_data |-> i.resume_data,
                                job_description |-> i.job_description,
                                result |-> Unset] : i \in ConcurrentInputs}]

NextConcurrent ==
  \E w \in Workers :
    \/ ComputeScores(w)
    \/ ComputeOverall(w)
    \/ AnalyzeKeywords(w)
    \/ GenerateSuggestions(w)
    \/ CheckFormattingIssues(w)
    \/ Return(w)

SpecConcurrent == InitConcurrent /\ [][NextConcurrent]_vars

(***************************************************************************)
(* Properties of the report of analyze_resume_data.  `call' records the    *)
(* last invocation of the scorer: its arguments and the value it returned. *)
(***************************************************************************)
SectionNames ==
  {"contact_info", "summary", "experience", "education", "skills", "formatting"}

Succeeded == call.made /\ call.ret.success

\* C1: in every successful report overall_score is the integer floor of
\* (contact_info + summary + experience + education + skills + formatting) / 6,
\* computed from the six values of section_scores of the same report.
OverallIsFloorOfMean ==
  Succeeded =>
    LET s == call.ret.section_scores
    IN  /\ DOMAIN s = SectionNames
        /\ 6 * call.ret.overall_score
             <= s.contact_info + s.summary + s.experience + s.education
                  + s.skills + s.formatting
        /\ s.contact_info + s.summary + s.experience + s.education
             + s.skills + s.formatting
             < 6 * (call.ret.overall_score + 1)

\* a report with contact 100, formatting 100 and the other four 0, overall 33
OverallIsFloorOfMeanWitness ==
  /\ Succeeded
  /\ call.ret.section_scores =
       [contact_info |-> 100, summary |-> 0, experience |-> 0,
        education |-> 0, skills |-> 0, formatting |-> 100]
  /\ call.ret.overall_score = 33

\* C2: every successful report has a section_scores mapping with exactly the
\* six keys contact_info, summary, experience, education, skills, formatting,
\* and each value is an integer in 0..100.
SectionScoresInRange ==
  Succeeded =>
    /\ DOMAIN call.ret.section_scores = SectionNames
    /\ \A k \in SectionNames : call.ret.section_scores[k] \in 0..100

\* a report whose formatting score took the header bonus and was clamped to
\* 100, next to sections scored 0 and sections scored in between
SectionScoresInRangeWitness ==
  /\ Succeeded
  /\ Contains(Repr(call.resume_data), Chars["Experience"])
  /\ call.ret.section_scores.formatting = 100
  /\ call.ret.section_scores.experience = 0
  /\ call.ret.section_scores.summary \in 1..99

\* a resume whose optional fields are each absent, null or of the expected
\* type: text fields are str, sections are lists of mappings
OptionalText(d, key) == Get(d, key, None).t \in {"none", "str"}

OptionalEntries(d, key, field) ==
  LET entries == Get(d, key, None)
  IN  \/ entries.t = "none"
      \/ /\ entries.t = "list"
         /\ \A i \in 1..Len(entries.v) :
              /\ entries.v[i].t = "dict"
              /\ OptionalText(entries.v[i], field)

WellFormed(resume_data) ==
  /\ resume_data.t = "dict"
  /\ OptionalText(resume_data, "summary")
  /\ Get(resume_data, "content", None).t \in {"none", "dict"}
  /\ OptionalEntries(resume_data, "experiences", "description")
  /\ OptionalEntries(resume_data, "education", "description")
  /\ OptionalEntries(resume_data, "skills", "name")

\* C3: the analysis is total over well-formed resumes: a resume whose optional
\* fields are absent or null (a null summary, a null experience description,
\* a null skill name, as Resume.to_dict produces) gets a successful report.
TotalOverWellFormed ==
  (call.made /\ WellFormed(call.resume_data)
     /\ call.job_description.t = "str")
    => call.ret.success

\* a section supplied with a value that is not a list
NonListSection(resume_data) ==
  /\ resume_data.t = "dict"
  /\ \E key \in {"experiences", "education", "skills"} :
       /\ key \in DOMAIN resume_data.v
       /\ resume_data.v[key].t \notin {"list", "none"}

\* C4: whenever the value supplied for experiences, education or skills is
\* not a list (an empty string, a number, a mapping), analyze_resume_data
\* returns a failure result and never a successful report.
NonListRejected ==
  (call.made /\ NonListSection(call.resume_data)) => ~call.ret.success

\* the texts of one field of the entries of a section, those that are present
EntryTexts(resume_data, key, field) ==
  LET entries == Get(resume_data, key, None)
      items == IF entries.t = "list" THEN entries.v ELSE <<>>
  IN  {Get(items[i], field, None).v :
         i \in {j \in 1..Len(items) :
                  items[j].t = "dict" /\ Get(items[j], field, None).t = "str"}}

\* the resume vocabulary: the lowercase alphabetic tokens of length >= 3 of
\* the summary, every experience description, every education description
\* and every skill name
Vocabulary(resume_data) ==
  LET texts == (IF Get(resume_data, "summary", None).t = "str"
                THEN {Get(resume_data, "summary", None).v} ELSE {})
                 \cup EntryTexts(resume_data, "experiences", "description")
                 \cup EntryTexts(resume_data, "education", "description")
                 \cup EntryTexts(resume_data, "skills", "name")
  IN  UNION {FindWords(Lower(text)) : text \in texts}

\* C5: in every successful report matched = resumeWords \cap jobWords \cap
\* referenceVocabulary, where resumeWords holds the tokens of the summary,
\* every experience description, every education description and every skill
\* name; a reference keyword of the job description that occurs in an
\* education description is reported in keywords and not in missing_keywords.
MatchedIsIntersection ==
  Succeeded =>
    /\ Range(call.ret.keywords)
         = (Vocabulary(call.resume_data) \cap JobWords(call.job_description))
             \cap AllKeywords
    /\ Len(call.ret.keywords) = Cardinality(Range(call.ret.keywords))

\* C6: missing_keywords of the report is a subset of the job-description
\* vocabulary \cap the reference vocabulary and is disjoint from the resume
\* vocabulary (summary, experience descriptions, education descriptions and
\* skill names).
MissingDisjointFromResume ==
  Succeeded =>
    /\ Range(call.ret.missing_keywords)
         \subseteq JobWords(call.job_description) \cap AllKeywords
    /\ Range(call.ret.missing_keywords) \cap Vocabulary(call.resume_data) = {}

\* the tracked keywords of the job description of the last invocation
JobKeywords == JobWords(call.job_description) \cap AllKeywords

\* C7 as stated: match_rate * |jobWords \cap referenceVocabulary| equals
\* 100 * |matched| whenever that set is non-empty, match_rate lies in 0..100,
\* and it is exactly 0 whenever the set is empty.
MatchRateExact ==
  Succeeded =>
    LET rate == call.ret.keyword_analysis.match_rate
        d == Cardinality(JobKeywords)
        m == Len(call.ret.keywords)
    IN  IF d = 0 THEN rate = I(0)
        ELSE /\ rate.t = "float"
             /\ ExactProduct(rate, d, 100 * m)
             /\ FloatLeq(rate, 100)

\* C7: match_rate is the double nearest to |matched| / |jobWords \cap
\* referenceVocabulary| times 100: match_rate * d differs from 100 * |matched|
\* by at most 2 * d units in the last place of match_rate, is equal to it when
\* nothing or everything is matched, lies in 0..100, and is exactly the
\* integer 0 whenever the set is empty.
MatchRateRounded ==
  Succeeded =>
    LET rate == call.ret.keyword_analysis.match_rate
        d == Cardinality(JobKeywords)
        m == Len(call.ret.keywords)
    IN  IF d = 0 THEN rate = I(0)
        ELSE /\ rate.t = "float"
             /\ WithinUlps(rate, d, 100 * m, 2)
             /\ m \in {0, d} => ExactProduct(rate, d, 100 * m)
             /\ FloatLeq(rate, 100)

\* one keyword of three matched: the rate is 33.33333333333333, a double whose
\* triple is not 100
MatchRateRoundedWitness ==
  /\ Succeeded
  /\ Cardinality(JobKeywords) = 3
  /\ Len(call.ret.keywords) = 1
  /\ call.ret.keyword_analysis.match_rate.t = "float"
  /\ ~ExactProduct(call.ret.keyword_analysis.match_rate, 3, 100)

\* C8: the keyword dictionary consists of three pairwise disjoint sets: no
\* string belongs to more than one of technical, soft_skills, action_verbs.
CategoriesDisjoint ==
  \A a, b \in DOMAIN keywords :
    a # b => Range(keywords[a]) \cap Range(keywords[b]) = {}

\* the fixed rule list of the suggestions, each rule with its condition
SuggestionRules(scores, missing) ==
  <<[type |-> "contact_info", priority |-> "high",
     applies |-> scores.contact_info < 75],
    [type |-> "summary", priority |-> "high", applies |-> scores.summary < 50],
    [type |-> "experience", priority |-> "high",
     applies |-> scores.experience < 50],
    [type |-> "skills", priority |-> "medium", applies |-> scores.skills < 50],
    [type |-> "keywords", priority |-> "medium", applies |-> missing # <<>>],
    [type |-> "content", priority |-> "low", applies |-> TRUE],
    [type |-> "content", priority |-> "medium", applies |-> TRUE]>>

Kinds(seq) ==
  [i \in 1..Len(seq) |-> [type |-> seq[i].type, priority |-> seq[i].priority]]

\* C9: the suggestions of a report are exactly the subsequence of the fixed
\* rule list [contact_info (high) if contact_info < 75, summary (high) if
\* summary < 50, experience (high) if experience < 50, skills (medium) if
\* skills < 50, keywords (medium) if missing keywords non-empty, action verbs
\* (low) always, quantify achievements (medium) always] whose conditions hold,
\* in that order, and the last two entries are always the action-verbs
\* suggestion followed by the quantify suggestion.
SuggestionsFollowRules ==
  Succeeded =>
    LET sug == call.ret.suggestions
        rules == SuggestionRules(call.ret.section_scores,
                                 call.ret.missing_keywords)
        n == Len(sug)
    IN  /\ Kinds(sug) = Kinds(SelectSeq(rules, LAMBDA r : r.applies))
        /\ n >= 2
        /\ sug[n - 1] =
             [type |-> "content",
              message |-> "Use strong action verbs like \"achieved\", \"led\", \"developed\"",
              priority |-> "low"]
        /\ sug[n] =
             [type |-> "content",
              message |-> "Quantify achievements with numbers and percentages",
              priority |-> "medium"]

\* a report in which every rule applies, and so all seven suggestions appear
SuggestionsFollowRulesWitness ==
  /\ Succeeded
  /\ Len(call.ret.suggestions) = 7
  /\ call.ret.missing_keywords # <<>>

\* C10: two invocations of analyze_resume_data on equal resume data and equal
\* job description return equal reports, including the same order of
\* missing_keywords and the same keyword suggestion message.
Deterministic ==
  [][(call.made /\ call'.made
        /\ call'.resume_data = call.resume_data
        /\ call'.job_description = call.job_description)
       => call'.ret = call.ret]_vars

NoInterference ==
  \A w \in Workers :
    running[w].pc = "done"
      => running[w].result \in analyze_resume_data(running[w].resume_data,
                                                    running[w].job_description)

\* two analyses of different inputs have both returned a report
NoInterferenceWitness ==
  /\ \A w \in Workers : running[w].pc = "done" /\ running[w].result.success
  /\ running[1].resume_data # running[2].resume_data
  /\ running[1].result.section_scores # running[2].result.section_scores

\* C13: no part of a keyword analysis is persisted: after an ATS check of a
\* stored resume completes, the stored resume record holds no matched
\* keywords, missing keywords or match rate derived from that analysis.
KeywordsNotPersisted ==
  /\ "missing_keywords" \notin DOMAIN resume
  /\ "match_rate" \notin DOMAIN resume
  /\ ~(resume.ats_keywords.t = "list" /\ resume.ats_keywords.v # <<>>)

\* the entries of a section: the mappings of the list the checkers read, or
\* <<>> when that is not a list of mappings
Entries(resume_data, key) ==
  LET x == IF Get(resume_data, "content", EmptyDict).t = "dict"
           THEN Section(resume_data, key) ELSE None
  IN  IF x.t = "list" /\ \A i \in 1..Len(x.v) : x.v[i].t = "dict"
      THEN x.v ELSE <<>>

\* the number of entries with a non-empty value of a field
CountWith(entries, field) ==
  Cardinality({i \in 1..Len(entries) : Truthy(Get(entries[i], field, None))})

\* a description that matches one of digits-%, $-digits, digits followed by
\* year(s) or month(s)
Quantified(entry) ==
  /\ Get(entry, "description", None).t = "str"
  /\ HasAchievement(Get(entry, "description", None).v)

\* the experience score of a non-empty list with the description bonus given
\* to lists of which at least half the entries have a description
ExperienceByRule(entries) ==
  LET n == Len(entries)
      total == 30 + (IF n >= 2 THEN 20 ELSE 10)
                  + (IF 2 * CountWith(entries, "description") >= n THEN 25 ELSE 0)
                  + (IF \E i \in 1..n : Quantified(entries[i]) THEN 25 ELSE 0)
  IN  IF total > 100 THEN 100 ELSE total

\* C14: for a non-empty experience list the +25 description bonus is applied
\* if and only if at least half of the entries have a non-empty description
\* (2 * number of entries with a description >= number of entries); a single
\* entry without a description does not receive it.
DescriptionBonusIffHalf ==
  (Succeeded /\ Entries(call.resume_data, "experiences") # <<>>)
    => call.ret.section_scores.experience
         = ExperienceByRule(Entries(call.resume_data, "experiences"))

\* the summary score by the rule 30 + L + V - P clamped to 0..100
SummaryByRule(summary) ==
  LET n == Len(summary)
      lower == Lower(summary)
      length_bonus == IF n < 100 THEN 0 ELSE IF n <= 500 THEN 25 ELSE 15
      verb_bonus ==
        IF \E verb \in {Chars["achieved"], Chars["led"], Chars["developed"],
                        Chars["created"], Chars["implemented"]} :
             Contains(lower, verb)
        THEN 20 ELSE 0
      penalty == IF summary[n] = "." THEN 0 ELSE 10
      total == 30 + length_bonus + verb_bonus - penalty
  IN  IF summary = <<>> THEN 0
      ELSE IF total > 100 THEN 100 ELSE IF total < 0 THEN 0 ELSE total

\* C15: the summary score is 0 for an empty summary; otherwise it is the clamp
\* to [0,100] of 30 + L + V - P, where L is 25 if 100 <= length <= 500, 15 if
\* length > 500 and 0 if length < 100, V is 20 if any of achieved, led,
\* developed, created, implemented occurs as a case-insensitive substring, and
\* P is 10 if the summary does not end with a period.
SummaryScoreByRule ==
  Succeeded =>
    LET summary == Get(call.resume_data, "summary", S(""))
    IN  call.ret.section_scores.summary
          = IF summary.t = "str" THEN SummaryByRule(summary.v) ELSE 0

\* a summary shorter than 100 characters that contains 'led' and ends with a
\* period scores 50
SummaryScoreByRuleWitness ==
  /\ Succeeded
  /\ Get(call.resume_data, "summary", S("")) = S("Led SQL migrations.")
  /\ call.ret.section_scores.summary = 50

\* C16: the contact score equals 25 times the number of satisfied conditions
\* among: email present, phone present, city or country present, full name
\* present; a present value is never rejected for being malformed, and city
\* and country together count once.
ContactScoreCounts ==
  Succeeded =>
    LET present(key) == Truthy(Get(call.resume_data, key, None))
        satisfied ==
          {c \in {"email", "phone", "place", "full_name"} :
             IF c = "place" THEN present("city") \/ present("country")
             ELSE present(c)}
    IN  call.ret.section_scores.contact_info = 25 * Cardinality(satisfied)

\* a resume with a malformed email, a city and a country scores 50
ContactScoreCountsWitness ==
  /\ Succeeded
  /\ Get(call.resume_data, "email", None) = S("not-an-email")
  /\ Truthy(Get(call.resume_data, "city", None))
  /\ Truthy(Get(call.resume_data, "country", None))
  /\ call.ret.section_scores.contact_info = 50

\* a resume without experience entries
NoExperienceEntries(resume_data) == Entries(resume_data, "experiences") = <<>>

\* C17: for every resume with zero experience entries the experience score is
\* exactly 0, whatever the other fields contain.
NoExperienceScoresZero ==
  (Succeeded /\ NoExperienceEntries(call.resume_data))
    => call.ret.section_scores.experience = 0

\* a resume without experiences whose other sections all score
NoExperienceScoresZeroWitness ==
  /\ Succeeded
  /\ NoExperienceEntries(call.resume_data)
  /\ call.ret.section_scores.experience = 0
  /\ call.ret.section_scores.contact_info = 100
  /\ call.ret.section_scores.summary > 0
  /\ call.ret.section_scores.education > 0
  /\ call.ret.section_scores.skills > 0

\* a description that contains a percentage such as 50%
HasPercent(entry) ==
  LET desc == Get(entry, "description", None)
  IN  /\ desc.t = "str"
      /\ \E i \in 1..(Len(desc.v) - 1) :
           desc.v[i] \in Digits /\ desc.v[i + 1] = "%"

\* the resume with the percent signs of the experience descriptions removed
WithoutPercent(resume_data) ==
  LET entries == Entries(resume_data, "experiences")
  IN  With(resume_data, "experiences",
           L([i \in 1..Len(entries) |->
                With(entries[i], "description",
                     [t |-> "str",
                      v |-> SelectSeq(Get(entries[i], "description", None).v,
                                      LAMBDA c : c # "%")])]))

\* C18: for every resume with at least 2 experience entries whose descriptions
\* each contain a percentage, the experience score is at least 25 higher than
\* that of the same resume with the percentages removed (descriptions matching
\* none of the patterns): the clamp to 100 never cancels the bonus.
AchievementBonusApplies ==
  LET entries == Entries(call.resume_data, "experiences")
  IN  (/\ Succeeded
       /\ Len(entries) >= 2
       /\ \A i \in 1..Len(entries) : HasPercent(entries[i])
       /\ \A i \in 1..Len(entries) :
            ~Quantified(Entries(WithoutPercent(call.resume_data),
                                "experiences")[i]))
        => call.ret.section_scores.experience
             >= _check_experience(WithoutPercent(call.resume_data)) + 25

\* two entries with '50%' score 100, 25 above the 75 of the same entries
\* without the percent sign
AchievementBonusAppliesWitness ==
  LET entries == Entries(call.resume_data, "experiences")
  IN  /\ Succeeded
      /\ Len(entries) = 2
      /\ \A i \in 1..Len(entries) : HasPercent(entries[i])
      /\ call.ret.section_scores.experience = 100
      /\ _check_experience(WithoutPercent(call.resume_data)) = 75

\* C19: the education score is 0 when there are no education entries;
\* otherwise it is min(100, 40 + 30 if any entry has a non-empty degree + 20
\* if any entry has a non-empty institution), independent of the number of
\* entries.
EducationScoreByRule ==
  Succeeded
    => LET entries == Entries(call.resume_data, "education")
           total == 40 + (IF CountWith(entries, "degree") > 0 THEN 30 ELSE 0)
                       + (IF CountWith(entries, "institution") > 0 THEN 20 ELSE 0)
       IN  call.ret.section_scores.education
             = IF entries = <<>> THEN 0
               ELSE IF total > 100 THEN 100 ELSE total

\* two entries, each with a degree and an institution, score 90
EducationScoreByRuleWitness ==
  /\ Succeeded
  /\ Len(Entries(call.resume_data, "education")) = 2
  /\ CountWith(Entries(call.resume_data, "education"), "degree") = 2
  /\ CountWith(Entries(call.resume_data, "education"), "institution") = 2
  /\ call.ret.section_scores.education = 90

\* C20: the skills score is 0 when there are no skills; otherwise it is
\* min(100, 30 + C + 20 if any skill has a category + 25 if any skill has a
\* level), where C is 25 for 10 or more skills, 15 for 5 to 9 skills and 0 for
\* fewer than 5.
SkillsScoreByRule ==
  Succeeded
    => LET entries == Entries(call.resume_data, "skills")
           n == Len(entries)
           count_bonus == IF n >= 10 THEN 25 ELSE IF n >= 5 THEN 15 ELSE 0
           total == 30 + count_bonus
                       + (IF CountWith(entries, "category") > 0 THEN 20 ELSE 0)
                       + (IF CountWith(entries, "level") > 0 THEN 25 ELSE 0)
       IN  call.ret.section_scores.skills
             = IF entries = <<>> THEN 0
               ELSE IF total > 100 THEN 100 ELSE total

\* ten skills with a category and a level score 100
SkillsScoreByRuleWitness ==
  /\ Succeeded
  /\ Len(Entries(call.resume_data, "skills")) = 10
  /\ call.ret.section_scores.skills = 100

\* the stringified resume data mentions a table, in any case
MentionsTable(resume_data) ==
  Contains(Lower(Repr(resume_data)), Chars["table"])

\* the stringified resume data holds one of the four header words verbatim
HasHeaderWord(resume_data) ==
  \E h \in {Chars["Experience"], Chars["Education"], Chars["Skills"],
            Chars["Summary"]} : Contains(Repr(resume_data), h)

\* C21: the formatting score is the clamp to [0,100] of 100 - 30 if the
\* stringified resume data contains 'table' case-insensitively + 10 if it
\* contains any of 'Experience', 'Education', 'Skills', 'Summary' verbatim;
\* hence it is 100 exactly when 'table' does not occur, 80 when 'table' and a
\* header word occur, and 70 when only 'table' occurs.
FormattingScoreByRule ==
  Succeeded =>
    LET table == MentionsTable(call.resume_data)
        header == HasHeaderWord(call.resume_data)
        total == 100 - (IF table THEN 30 ELSE 0) + (IF header THEN 10 ELSE 0)
        score == call.ret.section_scores.formatting
    IN  /\ score = IF total > 100 THEN 100 ELSE IF total < 0 THEN 0 ELSE total
        /\ (score = 100) <=> ~table
        /\ (table /\ header) => score = 80
        /\ (table /\ ~header) => score = 70

\* a resume that mentions a table and no header word scores 70, although its
\* keys hold the header words in lower case
FormattingScoreByRuleWitness ==
  /\ Succeeded
  /\ MentionsTable(call.resume_data)
  /\ ~HasHeaderWord(call.resume_data)
  /\ "experiences" \in DOMAIN call.resume_data.v
  /\ call.ret.section_scores.formatting = 70

(***************************************************************************)
(* The first ats-check request that a service process handles, with posted *)
(* resume data.                                                            *)
(***************************************************************************)
FirstRequests ==
  {D([resume_data |-> d, job_description |-> j]) :
     d \in {EmptyDict, BaseData, PhraseData},
     j \in {S(""), S("Python, Java and SQL."), ManyKeywordsJob}}

InitFirst ==
  /\ keywords = ATSScorerInit
  /\ call = NoCall
  /\ response = NoResponse
  /\ extraction = NoCall
  /\ running = NotRunning
  /\ frames = NoFrames
  /\ endpoint = "ats-check"
  /\ resume = DefaultResume
  /\ request \in FirstRequests

CheckAtsFirst == ~call.made /\ CheckAtsData

NextFirst == CheckAtsFirst

SpecFirst == InitFirst /\ [][NextFirst]_vars

\* the suggestions of type keywords of a report
KeywordSuggestions(ret) ==
  SelectSeq(ret.suggestions, LAMBDA s : s.type = "keywords")

\* C22: when missing keywords are non-empty, the keyword suggestion lists
\* exactly the first min(5, number of missing keywords) entries of the
\* report's missing_keywords, in the order of the matcher's output, and no
\* other keyword; when there are no missing keywords no keyword suggestion is
\* emitted.
KeywordSuggestionListsFirstFive ==
  Succeeded =>
    LET missing == call.ret.missing_keywords
        n == IF Len(missing) < 5 THEN Len(missing) ELSE 5
        listed == KeywordSuggestions(call.ret)
    IN  IF missing = <<>> THEN listed = <<>>
        ELSE /\ Len(listed) = 1
             /\ listed[1].message
                  = "Consider adding these keywords: "
                      \o JoinStrings(", ", [i \in 1..n |-> missing[i]])

\* a report with six missing keywords, of which the suggestion lists five
KeywordSuggestionListsFirstFiveWitness ==
  /\ Succeeded
  /\ Len(call.ret.missing_keywords) = 6
  /\ Len(KeywordSuggestions(call.ret)) = 1
  /\ call.ret.missing_keywords[1] = "docker"
  /\ call.ret.missing_keywords[6] = "java"

\* the issues of one type among the formatting issues of a report
IssuesOfType(ret, type) ==
  SelectSeq(ret.formatting_issues, LAMBDA issue : issue.type = type)

\* C23: the formatting-issue checker emits a content_length issue of severity
\* warning iff the stringified resume data is shorter than 500 characters, of
\* severity info iff it is longer than 10000 characters, and none for lengths
\* 500..10000; it never emits two content_length issues for one resume.
ContentLengthIssue ==
  Succeeded =>
    LET n == Len(Repr(call.resume_data))
        issues == IssuesOfType(call.ret, "content_length")
    IN  /\ Len(issues) <= 1
        /\ (n < 500) <=> (\E i \in 1..Len(issues) : issues[i].severity = "warning")
        /\ (n > 10000) <=> (\E i \in 1..Len(issues) : issues[i].severity = "info")
        /\ (500 <= n /\ n <= 10000) <=> (issues = <<>>)

\* resume data of exactly 500 characters has no content_length issue
ContentLengthIssueWitness ==
  /\ Succeeded
  /\ Len(Repr(call.resume_data)) = 500
  /\ IssuesOfType(call.ret, "content_length") = <<>>

\* C24: the formatting-issue checker emits exactly one missing_sections
\* warning iff at least one of 'summary', 'experience', 'education', 'skills'
\* does not occur case-insensitively as a substring of the stringified resume
\* data, and its message names all and only the absent sections, in the order
\* summary, experience, education, skills; otherwise it emits none.
MissingSectionsIssue ==
  Succeeded =>
    LET lower == Lower(Repr(call.resume_data))
        absent(section) == ~Contains(lower, Chars[section])
        names == (IF absent("summary") THEN <<"summary">> ELSE <<>>)
                   \o (IF absent("experience") THEN <<"experience">> ELSE <<>>)
                   \o (IF absent("education") THEN <<"education">> ELSE <<>>)
                   \o (IF absent("skills") THEN <<"skills">> ELSE <<>>)
        issues == IssuesOfType(call.ret, "missing_sections")
    IN  IF names = <<>> THEN issues = <<>>
        ELSE /\ Len(issues) = 1
             /\ issues[1].severity = "warning"
             /\ issues[1].message = "Missing sections: " \o JoinStrings(", ", names)

\* resume data with a summary alone misses the three other sections
MissingSectionsIssueWitness ==
  /\ Succeeded
  /\ DOMAIN call.resume_data.v = {"summary"}
  /\ IssuesOfType(call.ret, "missing_sections")
       = <<[type |-> "missing_sections",
            message |-> "Missing sections: experience, education, skills",
            severity |-> "warning"]>>

\* C25: in every successful report overall_score lies in 11..94: the summary
\* score never exceeds 75 and the education score never exceeds 90, the
\* formatting score is never below 70, and an overall score of 95 or more is
\* unreachable.
OverallWithinBounds ==
  Succeeded =>
    /\ call.ret.overall_score \in 11..94
    /\ call.ret.section_scores.summary <= 75
    /\ call.ret.section_scores.education <= 90
    /\ call.ret.section_scores.formatting >= 70

\* a resume whose sections all reach their highest score has an overall
\* score of 94
OverallWithinBoundsWitness ==
  /\ Succeeded
  /\ call.ret.section_scores
       = [contact_info |-> 100, summary |-> 75, experience |-> 100,
          education |-> 90, skills |-> 100, formatting |-> 100]
  /\ call.ret.overall_score = 94

\* C26: the experience score of any non-empty experience list is at least
\* 50, so the high-priority experience suggestion is present if and only if
\* the resume has no experience entries at all; entries without descriptions
\* never trigger it.
ExperienceSuggestionIffNoEntries ==
  Succeeded =>
    LET entries == Entries(call.resume_data, "experiences")
        suggested ==
          \E i \in 1..Len(call.ret.suggestions) :
            call.ret.suggestions[i]
              = Suggestion("experience",
                           "Add more work experience with descriptions", "high")
    IN  /\ entries # <<>> => call.ret.section_scores.experience >= 50
        /\ suggested <=> entries = <<>>
        /\ suggested <=> \E i \in 1..Len(call.ret.suggestions) :
                           call.ret.suggestions[i].type = "experience"

\* two entries without a description score 50 and get no experience
\* suggestion
ExperienceSuggestionIffNoEntriesWitness ==
  /\ Succeeded
  /\ Len(Entries(call.resume_data, "experiences")) = 2
  /\ CountWith(Entries(call.resume_data, "experiences"), "description") = 0
  /\ call.ret.section_scores.experience = 50
  /\ \A i \in 1..Len(call.ret.suggestions) :
       call.ret.suggestions[i].type # "experience"

\* the entries of the dictionary that consist of more than one word
MultiWordEntries ==
  {"machine learning", "data analysis", "project management",
   "problem solving", "critical thinking", "time management"}

\* C27: multi-word dictionary entries are never reported: none of them
\* appears in matched, missing, resume_keywords or job_keywords, and none
\* contributes to the match_rate denominator, even when the phrase occurs
\* verbatim in both texts.
MultiWordNeverReported ==
  /\ MultiWordEntries \subseteq AllKeywords
  /\ Succeeded =>
       LET analysis == call.ret.keyword_analysis
           d == Len(analysis.matched) + Len(analysis.missing)
       IN  /\ \A list \in {call.ret.keywords, call.ret.missing_keywords,
                           analysis.matched, analysis.missing} :
                Range(list) \cap MultiWordEntries = {}
           /\ IF d = 0 THEN analysis.match_rate = I(0)
              ELSE WithinUlps(analysis.match_rate, d,
                              100 * Len(analysis.matched), 2)
  /\ (extraction.made /\ extraction.ret.success) =>
       \A list \in {extraction.ret.resume_keywords, extraction.ret.job_keywords,
                    extraction.ret.matched_keywords,
                    extraction.ret.missing_keywords} :
         Range(list) \cap MultiWordEntries = {}

\* 'machine learning' stands in the summary and in the job description, and
\* the report holds 'led' and 'python' alone, at a rate of one of two
MultiWordNeverReportedWitness ==
  /\ Succeeded
  /\ Contains(Lower(Get(call.resume_data, "summary", S("")).v),
              Chars["machine learning"])
  /\ Contains(Lower(call.job_description.v), Chars["machine learning"])
  /\ call.ret.keywords = <<"led">>
  /\ call.ret.missing_keywords = <<"python">>
  /\ ExactProduct(call.ret.keyword_analysis.match_rate, 2, 100)

\* C28: the two keyword matchers agree: for every resume data and job
\* description, the set matched_keywords returned by extract_keywords equals
\* the set keyword_analysis.matched returned by analyze_resume_data, and the
\* set missing_keywords of extract_keywords equals keyword_analysis.missing.
MatchersAgree ==
  Succeeded =>
    \A extracted \in extract_keywords(call.resume_data, call.job_description) :
      extracted.success =>
        /\ Range(extracted.matched_keywords)
             = Range(call.ret.keyword_analysis.matched)
        /\ Range(extracted.missing_keywords)
             = Range(call.ret.keyword_analysis.missing)

\* C30: adding content never lowers the experience score: for every
\* experience list and every additional entry, with or without a description,
\* the experience score of the extended list is greater than or equal to the
\* score of the original list.
AddingNeverLowers ==
  Succeeded =>
    LET entries == Entries(call.resume_data, "experiences")
        extended(entry) ==
          With(call.resume_data, "experiences",
               L([i \in 1..(Len(entries) + 1) |->
                    IF i <= Len(entries) THEN entries[i] ELSE entry]))
    IN  \A entry \in {EmptyDict,
                      D([description |-> S("Increased sales 50% with Java")])} :
          _check_experience(extended(entry))
            >= call.ret.section_scores.experience

\* C29: repeating the ats-check operation on a stored resume is idempotent:
\* for any sequence of ats-check requests with the same resume_id and job
\* description and no intervening edit, every request returns the same
\* overall_score, section_scores and formatting_issues, although each
\* successful request writes overall_score back into the ats_score field that
\* is part of the data analysed by the next request.
RepeatedCheckSameReport ==
  [][(/\ Truthy(Get(request, "resume_id", None))
      /\ Succeeded
      /\ call'.made /\ call'.ret.success)
       => /\ call'.ret.overall_score = call.ret.overall_score
          /\ call'.ret.section_scores = call.ret.section_scores
          /\ call'.ret.formatting_issues = call.ret.formatting_issues]_vars



====
